---- MODULE Spec2Model ----
(***************************************************************************)
(* A model of the test harness's data layer:                               *)
(*   - the PostgreSQL schema of utils/DatabaseModels.ts (UNIQUE, NOT NULL, *)
(*     SERIAL and ON DELETE CASCADE constraints),                          *)
(*   - the CRUD wrappers of DatabaseService (utils/constants.ts),          *)
(*   - the connection manager DatabaseConnection (unnamed/part_004): its   *)
(*     calls as processes that advance from one await to the next, the     *)
(*     pg pool it checks connections out of, and the statement queue and   *)
(*     transaction state of each connection.                               *)
(* Column values are small integers standing for strings and numbers.      *)
(***************************************************************************)
EXTENDS Integers, Sequences, FiniteSets, TLC

(* ---------------------------------------------------------------- bounds *)
\* DatabaseService calls made by one test
MaxCalls == 3
\* distinct values a natural-key or ordinary column can take
MaxKeys == 2
\* CURRENT_TIMESTAMP ranges over 0..MaxClock
MaxClock == 1
\* DatabaseConnection calls the harness dispatches in one run
MaxDispatch == 3
\* DatabaseConnection calls a harness that awaits each call dispatches
MaxAwaited == 2
\* DatabaseConnection calls that may be in flight together
MaxInFlight == 2
\* statements in the list passed to transaction()
MaxStatements == 2
\* GrpcClient and GrpcService calls the tests of one RPC spec file make
MaxRpcCalls == 4
\* entities the test data generator returns in one process
MaxGenerated == 3
\* the count passed to a generator, and the length of a list of user ids
MaxCount == 2
\* Date.now() ranges over 0..MaxGenClock
MaxGenClock == 1
\* distinct random suffixes Math.random() can yield
MaxSuffix == 2
\* rows other worker processes insert while a cleanupTestData() runs
MaxInserts == 1
\* products in the cart when the page is opened
MaxItems == 4

Keys == 1..MaxKeys
Null == 0

VARIABLES
    users,        \* table users: id -> row
    products,     \* table products: id -> row
    orders,       \* table orders: id -> row
    order_items,  \* table order_items: id -> row
    seq,          \* the four SERIAL sequences
    now,          \* CURRENT_TIMESTAMP
    last,         \* the last DatabaseService call and what it returned
    createdU,     \* history: id -> natural keys passed to createUser, until updated/deleted
    createdP,     \* history: id -> sku passed to createProduct, until updated/deleted
    orderCall,    \* a createOrder call between its existence check and its INSERT
    suite,        \* the spec file that is running
    calls,        \* the calls the running test has made
    instance,     \* DatabaseConnection.instance: how many managers were constructed
    client,       \* this.client: the held connection, or Null
    pool,         \* this.pool: "open", "ending" (end() called) or "ended"
    conns,        \* connections the pool has opened so far: 1..conns
    checkedOut,   \* connections checked out of the pool
    idle,         \* connections waiting idle in the pool
    queue,        \* per connection, the statements passed to client.query, in order
    session,      \* per connection, the server's transaction state
    call,         \* per slot, a DatabaseConnection call in flight
    done,         \* the call that settled last
    dispatched,   \* the calls dispatched so far
    harness,      \* "awaited": one call at a time; "concurrent": dispatched together
    checkouts,    \* history: pool.connect() calls that delivered a connection
    releases,     \* history: release() calls
    closed,       \* history: a close() has resolved
    grpcInstance, \* GrpcClient.instance: the stubs of the retained object
    constructions,\* GrpcClient objects constructed so far
    gotInstance,  \* what the last getInstance() did: threw, or the object returned
    returned,     \* history: the objects getInstance() has returned
    channel,      \* the stubs' channels: "open" or "closed"
    declared,     \* the .proto files declare the methods the mock does not implement
    rpc,          \* per slot, an executeCall in flight
    settledRpc,   \* the executeCall that settled last, until the next is made
    rpcCalls,     \* the calls the tests have made
    createdIds,   \* the spec file's accumulator arrays
    unrecorded,   \* history: successful creates whose id no test recorded
    cleanup,      \* the delete calls of afterAll
    stage,        \* the arrays afterAll has gone through
    phase,        \* "tests", "afterAll" or "done"
    generated,    \* history: the entities the generator has returned
    genNow,       \* Date.now()
    genCall,      \* the generator call made last: its arguments and what it returned
    cln,          \* a cleanupTestData() call
    bulk,         \* the creates a test dispatched together, and what they returned
    trial,        \* the RPC test that is running
    cart          \* the cart page and the operation under way on it

dbVars == <<users, products, orders, order_items, seq, now, last, createdU, createdP,
            orderCall, suite, calls>>
connVars == <<instance, client, pool, conns, checkedOut, idle, queue, session, call,
              done, dispatched, harness, checkouts, releases, closed>>
rpcVars == <<grpcInstance, constructions, gotInstance, returned, channel, declared,
             rpc, settledRpc, rpcCalls, createdIds, unrecorded, cleanup, stage, phase>>
genVars == <<generated, genNow, genCall>>
clnVars == <<cln>>
bulkVars == <<bulk>>
testVars == <<trial, cart>>
otherVars == <<rpcVars, genVars, clnVars, bulkVars, testVars>>
vars == <<dbVars, connVars, otherVars>>

(* ------------------------------------------------------------- helpers *)
Restrict(f, S) == [x \in S |-> f[x]]
Extend(f, k, v) == [x \in DOMAIN f \cup {k} |-> IF x = k THEN v ELSE f[x]]
EmptyTable == [x \in {} |-> 0]

\* what a call returned: a row, null, a boolean, or a thrown error
RowResult(id, row) == [kind |-> "row", id |-> id, row |-> row, flag |-> FALSE]
NullResult == [kind |-> "null", id |-> Null, row |-> <<>>, flag |-> FALSE]
BoolResult(b) == [kind |-> "bool", id |-> Null, row |-> <<>>, flag |-> b]
ErrorResult == [kind |-> "error", id |-> Null, row |-> <<>>, flag |-> FALSE]
Call(op, arg, res) == [op |-> op, arg |-> arg, res |-> res]
UpdateArgs(id, updates) == [id |-> id, updates |-> updates]

(* ------------------------------------------------------------ the store *)
UsersConstraintNoEmail(tbl, id, row) ==
    /\ row.username # Null /\ row.email # Null /\ row.first_name # Null
    /\ \A j \in DOMAIN tbl \ {id} : tbl[j].username # row.username
\* users: username and email are UNIQUE NOT NULL
UsersConstraintOk(tbl, id, row) ==
    /\ row.username # Null /\ row.email # Null /\ row.first_name # Null
    /\ \A j \in DOMAIN tbl \ {id} :
          tbl[j].username # row.username /\ tbl[j].email # row.email

\* products: sku is UNIQUE NOT NULL
ProductsConstraintOk(tbl, id, row) ==
    /\ row.sku # Null /\ row.name # Null /\ row.price # Null
    /\ \A j \in DOMAIN tbl \ {id} : tbl[j].sku # row.sku

OrdersConstraintNoForeignKey(tbl, utbl, id, row) ==
    /\ row.order_number # Null
    /\ \A j \in DOMAIN tbl \ {id} : tbl[j].order_number # row.order_number
\* orders: order_number is UNIQUE NOT NULL, user_id REFERENCES users(id)
OrdersConstraintOk(tbl, utbl, id, row) ==
    /\ row.order_number # Null
    /\ row.user_id = Null \/ row.user_id \in DOMAIN utbl
    /\ \A j \in DOMAIN tbl \ {id} : tbl[j].order_number # row.order_number

\* order_items: order_id REFERENCES orders(id), product_id REFERENCES products(id)
OrderItemsConstraintOk(otbl, ptbl, row) ==
    /\ row.quantity # Null
    /\ row.order_id = Null \/ row.order_id \in DOMAIN otbl
    /\ row.product_id = Null \/ row.product_id \in DOMAIN ptbl

\* ON DELETE CASCADE: the rows that survive the deletion of a parent
OrdersKeptAfterUserDelete(tbl, uid) == tbl
OrdersAfterUserDelete(tbl, uid) ==
    Restrict(tbl, {o \in DOMAIN tbl : tbl[o].user_id # uid})
ItemsKept(tbl, keptOrders) == tbl
ItemsAfterOrdersDelete(tbl, keptOrders) ==
    Restrict(tbl, {i \in DOMAIN tbl :
                      tbl[i].order_id = Null \/ tbl[i].order_id \in keptOrders})
ItemsAfterProductDelete(tbl, pid) ==
    Restrict(tbl, {i \in DOMAIN tbl : tbl[i].product_id # pid})

\* DELETE FROM t WHERE id = $1 RETURNING id : the returned rows, and the
\* result.rows.length > 0 the callers compute from them
ReturningIds(tbl, id) == {i \in DOMAIN tbl : i = id}
DeletedAlways(tbl, id) == Cardinality(ReturningIds(tbl, id)) >= 0
Deleted(tbl, id) == Cardinality(ReturningIds(tbl, id)) > 0

\* SELECT * FROM t WHERE col = v : the matching ids (rows[0] is the only one
\* for a unique column)
SelectIds(tbl, col, v) == {i \in DOMAIN tbl : tbl[i][col] = v}
FirstRow(tbl, ids) ==
    IF ids = {} THEN NullResult
    ELSE LET i == CHOOSE x \in ids : \A y \in ids : x <= y IN RowResult(i, tbl[i])


(* ------------------------------------- DatabaseService: partial updates *)
\* an updates object is a sequence of <<key, value>> pairs in insertion order
ObjectKeys(updates) == [i \in 1..Len(updates) |-> updates[i][1]]
ObjectValues(updates) == [i \in 1..Len(updates) |-> updates[i][2]]
IsColumnKey(key) == key # "id" /\ key # "created_at"
\* Object.keys(updates).filter(key => key !== 'id' && key !== 'created_at')
UpdateFields(updates) == SelectSeq(ObjectKeys(updates), IsColumnKey)
\* Object.values(updates).filter((_, index) => fields[index]) : the value at
\* index is kept when fields has an entry at that index
UpdateValues(updates) ==
    LET fields == UpdateFields(updates)
        vals == ObjectValues(updates)
    IN  SubSeq(vals, 1, Len(fields))
\* SET f1 = $2, f2 = $3, ..., updated_at = CURRENT_TIMESTAMP
RECURSIVE SetClause(_, _, _)
SetClause(row, fields, values) ==
    IF fields = <<>> THEN row
    ELSE SetClause([row EXCEPT ![Head(fields)] = Head(values)],
                   Tail(fields), Tail(values))
UpdatedRowAndCreatedAt(row, updates) ==
    [SetClause(row, UpdateFields(updates), UpdateValues(updates))
        EXCEPT !.updated_at = now, !.created_at = now]
UpdatedRow(row, updates) ==
    [SetClause(row, UpdateFields(updates), UpdateValues(updates))
        EXCEPT !.updated_at = now]

\* a property of an object: undefined when the object lacks it
Undefined == "undefined"
Field(obj, f) == IF f \in DOMAIN obj THEN obj[f] ELSE Undefined

\* a value in the parameter list of a statement: undefined is sent as NULL,
\* and a column that the INSERT names gets the NULL, not its DEFAULT
NullText == "NULL"
Param(v) == IF v = Undefined THEN NullText ELSE v

(* ----------------------------------------------- DatabaseService: users *)
UserRow(u) == [username |-> u.username, email |-> u.email,
               first_name |-> u.first_name,
               created_at |-> now, updated_at |-> now]

CreateUser(u) ==
    /\ LET id == seq.users + 1
           row == UserRow(u)
       IN  /\ seq' = [seq EXCEPT !.users = id]
           /\ IF UsersConstraintOk(users, id, row)
              THEN /\ users' = Extend(users, id, row)
                   /\ createdU' = Extend(createdU, id, <<u.username, u.email>>)
                   /\ last' = Call("createUser", u, RowResult(id, row))
              ELSE /\ last' = Call("createUser", u, ErrorResult)
                   /\ UNCHANGED <<users, createdU>>
    /\ UNCHANGED <<products, orders, order_items, now, createdP, orderCall>>

\* SELECT * FROM users WHERE id = $1, then rows[0] || null
getUserById(id) ==
    IF id \in DOMAIN users THEN RowResult(id, users[id]) ELSE NullResult
getUserByUsername(email) == FirstRow(users, SelectIds(users, "username", email))
\* SELECT * FROM users WHERE email = $1, then rows[0] || null
getUserByEmail(email) == FirstRow(users, SelectIds(users, "email", email))

GetUserById(id) ==
    /\ last' = Call("getUserById", id, getUserById(id))
    /\ UNCHANGED <<users, products, orders, order_items, seq, now,
                   createdU, createdP, orderCall>>

GetUserByEmail(email) ==
    /\ last' = Call("getUserByEmail", email, getUserByEmail(email))
    /\ UNCHANGED <<users, products, orders, order_items, seq, now,
                   createdU, createdP, orderCall>>

UpdateUser(id, updates) ==
    /\ IF Len(UpdateFields(updates)) = 0
       THEN /\ last' = Call("updateUser", UpdateArgs(id, updates), getUserById(id))
            /\ UNCHANGED <<users, createdU>>
       ELSE IF id \notin DOMAIN users
       THEN /\ last' = Call("updateUser", UpdateArgs(id, updates), NullResult)
            /\ UNCHANGED <<users, createdU>>
       ELSE LET row == UpdatedRow(users[id], updates)
            IN  IF UsersConstraintOk(users, id, row)
                THEN /\ users' = [users EXCEPT ![id] = row]
                     /\ createdU' = Restrict(createdU, DOMAIN createdU \ {id})
                     /\ last' = Call("updateUser", UpdateArgs(id, updates), RowResult(id, row))
                ELSE /\ last' = Call("updateUser", UpdateArgs(id, updates), ErrorResult)
                     /\ UNCHANGED <<users, createdU>>
    /\ UNCHANGED <<products, orders, order_items, seq, now, createdP, orderCall>>

\* DELETE FROM users WHERE id = $1 RETURNING id, with the cascade to orders
\* and from those to order_items
DeleteUser(id) ==
    /\ LET keptOrders == OrdersAfterUserDelete(orders, id)
       IN  IF id \in DOMAIN users
           THEN /\ users' = Restrict(users, DOMAIN users \ {id})
                /\ orders' = keptOrders
                /\ order_items' = ItemsAfterOrdersDelete(order_items, DOMAIN keptOrders)
                /\ createdU' = Restrict(createdU, DOMAIN createdU \ {id})
           ELSE UNCHANGED <<users, orders, order_items, createdU>>
    /\ last' = Call("deleteUser", id, BoolResult(Deleted(users, id)))
    /\ UNCHANGED <<products, seq, now, createdP, orderCall>>

(* -------------------------------------------- DatabaseService: products *)
ProductRow(p) == [sku |-> p.sku, name |-> p.name, price |-> p.price,
                  image_url |-> Param(Field(p, "image_url")),
                  is_active |-> Param(Field(p, "is_active")),
                  created_at |-> now, updated_at |-> now]

CreateProduct(p) ==
    /\ LET id == seq.products + 1
           row == ProductRow(p)
       IN  /\ seq' = [seq EXCEPT !.products = id]
           /\ IF ProductsConstraintOk(products, id, row)
              THEN /\ products' = Extend(products, id, row)
                   /\ createdP' = Extend(createdP, id, p.sku)
                   /\ last' = Call("createProduct", p, RowResult(id, row))
              ELSE /\ last' = Call("createProduct", p, ErrorResult)
                   /\ UNCHANGED <<products, createdP>>
    /\ UNCHANGED <<users, orders, order_items, now, createdU, orderCall>>

getProductById(id) ==
    IF id \in DOMAIN products THEN RowResult(id, products[id]) ELSE NullResult
getProductBySku(sku) == FirstRow(products, SelectIds(products, "sku", sku))

GetProductById(id) ==
    /\ last' = Call("getProductById", id, getProductById(id))
    /\ UNCHANGED <<users, products, orders, order_items, seq, now,
                   createdU, createdP, orderCall>>

GetProductBySku(sku) ==
    /\ last' = Call("getProductBySku", sku, getProductBySku(sku))
    /\ UNCHANGED <<users, products, orders, order_items, seq, now,
                   createdU, createdP, orderCall>>

UpdateProduct(id, updates) ==
    /\ IF Len(UpdateFields(updates)) = 0
       THEN /\ last' = Call("updateProduct", UpdateArgs(id, updates), getProductById(id))
            /\ UNCHANGED <<products, createdP>>
       ELSE IF id \notin DOMAIN products
       THEN /\ last' = Call("updateProduct", UpdateArgs(id, updates), NullResult)
            /\ UNCHANGED <<products, createdP>>
       ELSE LET row == UpdatedRow(products[id], updates)
            IN  IF ProductsConstraintOk(products, id, row)
                THEN /\ products' = [products EXCEPT ![id] = row]
                     /\ createdP' = Restrict(createdP, DOMAIN createdP \ {id})
                     /\ last' = Call("updateProduct", UpdateArgs(id, updates), RowResult(id, row))
                ELSE /\ last' = Call("updateProduct", UpdateArgs(id, updates), ErrorResult)
                     /\ UNCHANGED <<products, createdP>>
    /\ UNCHANGED <<users, orders, order_items, seq, now, createdU, orderCall>>

\* DELETE FROM products WHERE id = $1 RETURNING id, with the cascade to order_items
DeleteProduct(id) ==
    /\ IF id \in DOMAIN products
       THEN /\ products' = Restrict(products, DOMAIN products \ {id})
            /\ order_items' = ItemsAfterProductDelete(order_items, id)
            /\ createdP' = Restrict(createdP, DOMAIN createdP \ {id})
       ELSE UNCHANGED <<products, order_items, createdP>>
    /\ last' = Call("deleteProduct", id, BoolResult(Deleted(products, id)))
    /\ UNCHANGED <<users, orders, seq, now, createdU, orderCall>>

(* ---------------------------------------------- DatabaseService: orders *)
OrderRow(o) == [user_id |-> o.user_id, order_number |-> o.order_number,
                status |-> Param(Field(o, "status")), created_at |-> now,
                updated_at |-> now]

\* createOrder up to its first await: getUserById(order.user_id), and the
\* throw when no such user exists
CreateOrderCheck(o) ==
    /\ orderCall = <<>>
    /\ IF getUserById(o.user_id).kind = "null"
       THEN /\ last' = Call("createOrder", o, ErrorResult)
            /\ UNCHANGED orderCall
       ELSE /\ orderCall' = <<o>>
            /\ UNCHANGED last
    /\ UNCHANGED <<users, products, orders, order_items, seq, now, createdU, createdP>>

\* the rest of createOrder: INSERT INTO orders ... RETURNING *
CreateOrderInsert ==
    /\ orderCall # <<>>
    /\ LET o == orderCall[1]
           id == seq.orders + 1
           row == OrderRow(o)
       IN  /\ seq' = [seq EXCEPT !.orders = id]
           /\ IF OrdersConstraintOk(orders, users, id, row)
              THEN /\ orders' = Extend(orders, id, row)
                   /\ last' = Call("createOrder", o, RowResult(id, row))
              ELSE /\ last' = Call("createOrder", o, ErrorResult)
                   /\ UNCHANGED orders
    /\ orderCall' = <<>>
    /\ UNCHANGED <<users, products, order_items, now, createdU, createdP>>

getOrderById(id) ==
    IF id \in DOMAIN orders THEN RowResult(id, orders[id]) ELSE NullResult

GetOrderById(id) ==
    /\ last' = Call("getOrderById", id, getOrderById(id))
    /\ UNCHANGED <<users, products, orders, order_items, seq, now,
                   createdU, createdP, orderCall>>

\* DELETE FROM orders WHERE id = $1 RETURNING id, with the cascade to order_items
DeleteOrder(id) ==
    /\ IF id \in DOMAIN orders
       THEN /\ orders' = Restrict(orders, DOMAIN orders \ {id})
            /\ order_items' = ItemsAfterOrdersDelete(order_items, DOMAIN orders \ {id})
       ELSE UNCHANGED <<orders, order_items>>
    /\ last' = Call("deleteOrder", id, BoolResult(Deleted(orders, id)))
    /\ UNCHANGED <<users, products, seq, now, createdU, createdP, orderCall>>

\* the values of enum OrderStatus
OrderStatuses == {"pending", "confirmed", "shipped", "delivered", "cancelled"}

\* UPDATE orders SET status = $1, updated_at = CURRENT_TIMESTAMP
StatusRowKept(row, status) == [row EXCEPT !.updated_at = now]
StatusRow(row, status) == [row EXCEPT !.status = status, !.updated_at = now]

\* if (result.rows.length === 0) throw new Error(...); return result.rows[0]
StatusResultOrNull(tbl, ids) == FirstRow(tbl, ids)
StatusResult(tbl, ids) == IF ids = {} THEN ErrorResult ELSE FirstRow(tbl, ids)

StatusArgs(id, status) == [id |-> id, status |-> status]

\* UPDATE orders SET ... WHERE id = $2 RETURNING *
UpdateOrderStatus(id, status) ==
    /\ LET ids == ReturningIds(orders, id)
           updated == [i \in DOMAIN orders |->
                          IF i \in ids THEN StatusRow(orders[i], status) ELSE orders[i]]
       IN  /\ orders' = updated
           /\ last' = Call("updateOrderStatus", StatusArgs(id, status),
                           StatusResult(updated, ids))
    /\ UNCHANGED <<users, products, order_items, seq, now, createdU, createdP, orderCall>>

(* ----------------------------------------- DatabaseService: order items *)
OrderItemRow(it) == [order_id |-> it.order_id, product_id |-> it.product_id,
                     quantity |-> it.quantity]

AddOrderItem(it) ==
    /\ LET id == seq.order_items + 1
           row == OrderItemRow(it)
       IN  /\ seq' = [seq EXCEPT !.order_items = id]
           /\ IF OrderItemsConstraintOk(orders, products, row)
              THEN /\ order_items' = Extend(order_items, id, row)
                   /\ last' = Call("addOrderItem", it, RowResult(id, row))
              ELSE /\ last' = Call("addOrderItem", it, ErrorResult)
                   /\ UNCHANGED order_items
    /\ UNCHANGED <<users, products, orders, now, createdU, createdP, orderCall>>

RemoveOrderItem(id) ==
    /\ order_items' = Restrict(order_items, DOMAIN order_items \ {id})
    /\ last' = Call("removeOrderItem", id, BoolResult(Deleted(order_items, id)))
    /\ UNCHANGED <<users, products, orders, seq, now, createdU, createdP, orderCall>>

\* time passes between two statements (the order tests compare no timestamps)
Tick ==
    /\ suite # "order-crud"
    \* time shows only in the timestamps of rows: it is counted from the first row
    /\ DOMAIN users \cup DOMAIN products # {}
    /\ now < MaxClock
    /\ now' = now + 1
    /\ UNCHANGED <<users, products, orders, order_items, seq, last,
                   createdU, createdP, orderCall>>

(* ------------------------------------------- DatabaseConnection: state *)
\* new Pool({ ..., max: 20, ... })
PoolMax == 20

\* a call opens at most one connection, and a run may start with one
Clients == 1..(MaxDispatch + 1)
Slots == 1..MaxInFlight

\* the server side of a connection: no transaction, one open, or one aborted
\* by a failed statement; undo holds the ids of the rows it has inserted
IdleSession == [txn |-> "idle", undo |-> {}, temp |-> "none"]

NoError == <<"none", 0>>
IdleCall == [op |-> "none", pc |-> "idle", conn |-> Null, queries |-> <<>>,
             results |-> <<>>, err |-> NoError, outcome |-> "pending",
             commits |-> 0, rollbacks |-> 0,
             sawNull |-> FALSE, leased |-> FALSE, afterClose |-> FALSE,
             number |-> 0, before |-> EmptyTable]

\* the statements of the model: the INSERT of createUser for a user whose
\* columns all carry one key, a statement the server rejects, and a SELECT
\* that reads no table
Insert(k) == [text |-> "INSERT", key |-> k]
Invalid == [text |-> "INVALID", key |-> Null]
Select == [text |-> "SELECT", key |-> Null]
\* CREATE TEMP TABLE test_transaction (...) and the INSERT into that table
CreateTemp == [text |-> "CREATE TEMP TABLE", key |-> Null]
InsertTemp == [text |-> "INSERT INTO TEMP", key |-> Null]
Control(text) == [text |-> text, key |-> Null]
Item(s, st, i) == [slot |-> s, text |-> st.text, key |-> st.key, index |-> i]

\* the rows no open transaction has written
Uncommitted == UNION {session[c].undo : c \in Clients}
Persisted == Restrict(users, DOMAIN users \ Uncommitted)

\* a connection the pool has ended: neither checked out nor idle
Removed(c) == c \notin checkedOut \cup idle

(* ------------------------------------------ the server, per connection *)
WithoutRows(tbl, ids) == Restrict(tbl, DOMAIN tbl \ ids)

Answer(ok, tbl, sq, ss) == [ok |-> ok, users |-> tbl, seq |-> sq, ss |-> ss]

\* a failed statement aborts the transaction it runs in
Failed(ss, sq) ==
    Answer(FALSE, users, sq, IF ss.txn = "open" THEN [ss EXCEPT !.txn = "aborted"] ELSE ss)

\* the session after its transaction ended: a temporary table created in
\* it stays for the session when the transaction committed and is dropped
\* when it rolled back
Ended(ss, committed) ==
    [IdleSession EXCEPT !.temp = IF ss.temp = "created"
                                 THEN (IF committed THEN "kept" ELSE "none")
                                 ELSE ss.temp]

\* what the server does with one statement on connection c
Execute(c, st) ==
    LET ss == session[c]
        id == seq.users + 1
        row == UserRow([username |-> st.key, email |-> st.key, first_name |-> st.key])
    IN  CASE st.text = "BEGIN" ->
                IF ss.txn = "aborted" THEN Failed(ss, seq)
                ELSE Answer(TRUE, users, seq, [ss EXCEPT !.txn = "open"])
          [] st.text = "COMMIT" ->
                IF ss.txn = "aborted"
                THEN Answer(TRUE, WithoutRows(users, ss.undo), seq, Ended(ss, FALSE))
                ELSE Answer(TRUE, users, seq, Ended(ss, TRUE))
          [] st.text = "ROLLBACK" ->
                Answer(TRUE, WithoutRows(users, ss.undo), seq, Ended(ss, FALSE))
          [] st.text = "INSERT" ->
                IF ss.txn = "aborted" THEN Failed(ss, seq)
                ELSE IF UsersConstraintOk(users, id, row)
                THEN Answer(TRUE, Extend(users, id, row), [seq EXCEPT !.users = id],
                            IF ss.txn = "open"
                            THEN [ss EXCEPT !.undo = ss.undo \cup {id}] ELSE ss)
                ELSE Failed(ss, [seq EXCEPT !.users = id])
          [] st.text = "SELECT" ->
                IF ss.txn = "aborted" THEN Failed(ss, seq)
                ELSE Answer(TRUE, users, seq, ss)
          [] st.text = "CREATE TEMP TABLE" ->
                IF ss.txn = "aborted" \/ ss.temp # "none" THEN Failed(ss, seq)
                ELSE Answer(TRUE, users, seq,
                            [ss EXCEPT !.temp = IF ss.txn = "open" THEN "created" ELSE "kept"])
          [] st.text = "INSERT INTO TEMP" ->
                IF ss.txn = "aborted" \/ ss.temp = "none" THEN Failed(ss, seq)
                ELSE Answer(TRUE, users, seq, ss)
          [] OTHER -> Failed(ss, seq)

\* an INSERT whose key collides with a row another connection has not yet
\* committed waits for that transaction to end
Blocked(c, st) ==
    /\ st.text = "INSERT"
    /\ session[c].txn # "aborted"
    /\ \E j \in Uncommitted \ session[c].undo :
          users[j].username = st.key \/ users[j].email = st.key

(* ------------------------------------------------------------- the pool *)
\* pool.end() resolves once the pool has no connection left, open or opening
EndIfDrained(p, out, opening) ==
    IF p = "ending" /\ out = {} /\ ~opening THEN "ended" ELSE p

Opening(cl) == \E s \in Slots : cl[s].pc = "creating"

\* a connection the pool ends gets its open transaction rolled back
RollBackRemoved(gone) ==
    /\ users' = WithoutRows(users, UNION {session[c].undo : c \in gone})
    /\ session' = [c \in Clients |-> IF c \in gone THEN IdleSession ELSE session[c]]

\* continuations of settled promises run before the next event is handled
Turn ==
    \A s \in Slots :
        /\ call[s].pc # "ready"
        /\ call[s].pc = "ending" => pool # "ended"

(* ----------------------------------------- DatabaseConnection: the calls *)
\* if (!DatabaseConnection.instance) instance = new DatabaseConnection()
NeedsInstanceAlways(inst) == TRUE
NeedsInstance(inst) == inst = 0
getInstance(inst) == IF NeedsInstance(inst) THEN inst + 1 ELSE inst
\* the fields of the manager getInstance() returns: those of a new manager
\* (an open pool, no client) or those of the existing one
HeldClient == IF NeedsInstance(instance) THEN Null ELSE client
ThePool == IF NeedsInstance(instance) THEN "open" ELSE pool

\* this.client = null
ClearedClientKept(c) == c
ClearedClient(c) == Null

\* the statement of the catch block
CatchStatementCommit == "COMMIT"
CatchStatement == "ROLLBACK"

\* Promise.all over the statements' promises resolves when all have
PromiseAll(results) == \A i \in DOMAIN results : results[i] = "ok"

\* the harness dispatches a call into the lowest free slot; a harness that
\* awaits every call dispatches only when none is in flight
CanDispatch(s) ==
    /\ dispatched < (IF harness = "awaited" THEN MaxAwaited ELSE MaxDispatch)
    /\ call[s].pc = "idle"
    /\ \A t \in Slots : t < s => call[t].pc # "idle"
    /\ harness = "awaited" => \A t \in Slots : call[t].pc = "idle"

NewCall(op, queries) ==
    [IdleCall EXCEPT !.op = op, !.queries = queries,
                     !.results = [i \in 1..Len(queries) |-> "pending"],
                     !.sawNull = (HeldClient = Null),
                     !.afterClose = closed,
                     !.number = dispatched + 1,
                     !.before = Persisted]

RejectedWith(cl, err) == [cl EXCEPT !.pc = "settled", !.outcome = "rejected", !.err = err]
ResolvedCall(cl) == [cl EXCEPT !.pc = "settled", !.outcome = "resolved"]

\* the call in slot s settles: its promise resolves or rejects
Settle(s, cl) ==
    /\ done' = cl
    /\ call' = [call EXCEPT ![s] = IdleCall]
    /\ closed' = (closed \/ (cl.op = "close" /\ cl.outcome = "resolved"))

\* the pool opens a connection for a connect() when it has none idle and is
\* not full; otherwise the connect() waits for one
IsFull == Cardinality(checkedOut \cup idle)
              + Cardinality({s \in Slots : call[s].pc = "creating"}) >= PoolMax

\* getClient() up to its await: the held client, or a pool.connect() that
\* rejects at once on a pool that end() was called on
GetClient(s, cl) ==
    /\ CanDispatch(s)
    /\ instance' = getInstance(instance)
    /\ dispatched' = dispatched + 1
    /\ client' = HeldClient
    /\ pool' = ThePool
    /\ IF HeldClient # Null
       THEN /\ call' = [call EXCEPT ![s] = [cl EXCEPT !.pc = "ready", !.conn = HeldClient]]
            /\ UNCHANGED done
       ELSE IF ThePool # "open"
       THEN /\ done' = RejectedWith(cl, <<"connect", 0>>)
            /\ UNCHANGED call
       ELSE /\ call' = [call EXCEPT ![s] =
                           [cl EXCEPT !.pc = IF idle # {} \/ IsFull
                                             THEN "waiting" ELSE "creating"]]
            /\ UNCHANGED done
    /\ UNCHANGED <<conns, checkedOut, idle, queue, session, harness, checkouts,
                   releases, closed>>
    /\ UNCHANGED dbVars

DispatchQuery(s, st) == GetClient(s, NewCall("query", <<st>>))

DispatchTransaction(s, queries) == GetClient(s, NewCall("transaction", queries))

\* resetClient() has no await: it runs to its end when it is called
DispatchResetClient(s) ==
    /\ CanDispatch(s)
    /\ instance' = getInstance(instance)
    /\ dispatched' = dispatched + 1
    /\ LET held == HeldClient
           out == checkedOut \ {held}
       IN  IF held # Null
           THEN /\ checkedOut' = out
                /\ idle' = IF ThePool = "open" THEN idle \cup {held} ELSE idle
                /\ releases' = releases + 1
                /\ pool' = EndIfDrained(ThePool, out, Opening(call))
                /\ RollBackRemoved(IF ThePool = "open" THEN {} ELSE {held})
                /\ client' = ClearedClient(held)
           ELSE /\ client' = held
                /\ pool' = ThePool
                /\ UNCHANGED <<checkedOut, idle, releases, users, session>>
    /\ done' = ResolvedCall(NewCall("resetClient", <<>>))
    /\ UNCHANGED <<conns, queue, call, harness, checkouts, closed>>
    /\ UNCHANGED <<products, orders, order_items, seq, now, last, createdU, createdP,
                   orderCall, suite, calls>>

\* close() up to its await: the release, then pool.end(), which rejects when
\* end() was called before, and otherwise ends the idle connections
DispatchClose(s) ==
    /\ CanDispatch(s)
    /\ instance' = getInstance(instance)
    /\ dispatched' = dispatched + 1
    /\ LET held == HeldClient
           out == checkedOut \ {held}
           cl == NewCall("close", <<>>)
           idle1 == IF held # Null /\ ThePool = "open" THEN idle \cup {held} ELSE idle
       IN  /\ checkedOut' = out
           /\ releases' = IF held # Null THEN releases + 1 ELSE releases
           /\ client' = IF held # Null THEN ClearedClient(held) ELSE held
           /\ IF ThePool # "open"
              THEN /\ pool' = EndIfDrained(ThePool, out, Opening(call))
                   /\ idle' = idle1
                   /\ RollBackRemoved({held} \cap checkedOut)
                   /\ done' = RejectedWith(cl, <<"end", 0>>)
                   /\ UNCHANGED call
              ELSE /\ pool' = EndIfDrained("ending", out, Opening(call))
                   /\ idle' = {}
                   /\ RollBackRemoved(idle1)
                   /\ call' = [call EXCEPT ![s] = [cl EXCEPT !.pc = "ending"]]
                   /\ UNCHANGED done
    /\ UNCHANGED <<conns, queue, harness, checkouts, closed>>
    /\ UNCHANGED <<products, orders, order_items, seq, now, last, createdU, createdP,
                   orderCall, suite, calls>>

\* await this.pool.end() returns
CloseResolves(s) ==
    /\ call[s].pc = "ending"
    /\ pool = "ended"
    /\ Settle(s, ResolvedCall(call[s]))
    /\ UNCHANGED <<instance, client, pool, conns, checkedOut, idle, queue, session,
                   dispatched, harness, checkouts, releases>>
    /\ UNCHANGED dbVars

\* this.client = await this.pool.connect() : the pool delivers a connection,
\* an idle one if it has one, and the continuation assigns it
Connected(s) ==
    /\ Turn
    /\ call[s].pc \in {"creating", "waiting"}
    /\ call[s].pc = "waiting" => pool = "open" /\ (idle # {} \/ ~IsFull)
    /\ \E c \in Clients :
          /\ IF call[s].pc = "waiting" /\ idle # {}
             THEN c \in idle /\ conns' = conns
             ELSE c = conns + 1 /\ conns' = c
          /\ idle' = idle \ {c}
          /\ checkedOut' = checkedOut \cup {c}
          /\ client' = c
          /\ call' = [call EXCEPT ![s].pc = "ready", ![s].conn = c, ![s].leased = TRUE]
    /\ checkouts' = checkouts + 1
    /\ UNCHANGED <<instance, pool, queue, session, done, dispatched, harness,
                   releases, closed>>
    /\ UNCHANGED dbVars

\* connectionTimeoutMillis: a connect() waiting on a pool that is ending, or
\* on a full pool whose connections are all checked out, is not served
ConnectTimeout(s) ==
    /\ Turn
    /\ call[s].pc = "waiting"
    /\ pool # "open" \/ (idle = {} /\ IsFull)
    /\ Settle(s, RejectedWith(call[s], <<"connect", 0>>))
    /\ UNCHANGED <<instance, client, pool, conns, checkedOut, idle, queue, session,
                   dispatched, harness, checkouts, releases>>
    /\ UNCHANGED dbVars

\* after await this.getClient(): client.query(text, params), or
\* client.query("BEGIN")
Send(s) ==
    /\ call[s].pc = "ready"
    /\ LET cl == call[s]
           first == IF cl.op = "query" THEN cl.queries[1] ELSE Control("BEGIN")
       IN  /\ queue' = [queue EXCEPT ![cl.conn] = Append(@, Item(s, first, 0))]
           /\ call' = [call EXCEPT ![s].pc = IF cl.op = "query" THEN "awaiting" ELSE "begin"]
    /\ UNCHANGED <<instance, client, pool, conns, checkedOut, idle, session, done,
                   dispatched, harness, checkouts, releases, closed>>
    /\ UNCHANGED dbVars

\* the statements of the list, all passed to client.query in one turn
StatementsReversed(s, queries) ==
    [i \in 1..Len(queries) |-> Item(s, queries[Len(queries) + 1 - i], Len(queries) + 1 - i)]
Statements(s, queries) == [i \in 1..Len(queries) |-> Item(s, queries[i], i)]

Counted(cl, text) ==
    [cl EXCEPT !.commits = IF text = "COMMIT" THEN @ + 1 ELSE @,
               !.rollbacks = IF text = "ROLLBACK" THEN @ + 1 ELSE @]

\* the catch block of transaction(): the error is kept, the catch statement is
\* passed to client.query and awaited
Catch(s, c, cl, err) ==
    /\ queue' = [queue EXCEPT ![c] = Append(Tail(@), Item(s, Control(CatchStatement), 0))]
    /\ call' = [call EXCEPT ![s] =
                   Counted([cl EXCEPT !.pc = "rollback", !.err = err], CatchStatement)]
    /\ UNCHANGED <<done, closed>>

\* await client.query("COMMIT")
Commit(s, c, cl) ==
    /\ queue' = [queue EXCEPT ![c] = Append(Tail(@), Item(s, Control("COMMIT"), 0))]
    /\ call' = [call EXCEPT ![s] = Counted([cl EXCEPT !.pc = "commit"], "COMMIT")]
    /\ UNCHANGED <<done, closed>>

\* the answer to the head of connection c's queue reaches the call that
\* awaits it, and the call runs on to its next await
Deliver(c, it, ok) ==
    LET s == it.slot
        cl == call[s]
        got == [cl EXCEPT !.results[it.index] = IF ok THEN "ok" ELSE "error"]
    IN  CASE cl.pc = "awaiting" ->
                /\ queue' = [queue EXCEPT ![c] = Tail(@)]
                /\ Settle(s, IF ok THEN ResolvedCall([cl EXCEPT !.results[1] = "ok"])
                             ELSE RejectedWith([cl EXCEPT !.results[1] = "error"],
                                               <<"statement", 1>>))
          [] cl.pc = "begin" ->
                IF ~ok THEN Catch(s, c, cl, <<"BEGIN", 0>>)
                ELSE IF cl.queries = <<>> THEN Commit(s, c, cl)
                ELSE /\ queue' = [queue EXCEPT ![c] = Tail(@) \o Statements(s, cl.queries)]
                     /\ call' = [call EXCEPT ![s].pc = "statements"]
                     /\ UNCHANGED <<done, closed>>
          [] cl.pc = "statements" ->
                IF ~ok THEN Catch(s, c, got, <<"statement", it.index>>)
                ELSE IF PromiseAll(got.results) THEN Commit(s, c, got)
                ELSE /\ queue' = [queue EXCEPT ![c] = Tail(@)]
                     /\ call' = [call EXCEPT ![s] = got]
                     /\ UNCHANGED <<done, closed>>
          [] cl.pc = "commit" ->
                IF ok
                THEN /\ queue' = [queue EXCEPT ![c] = Tail(@)]
                     /\ Settle(s, ResolvedCall(cl))
                ELSE Catch(s, c, cl, <<"COMMIT", 0>>)
          [] cl.pc = "rollback" /\ it.index > 0 ->
                /\ queue' = [queue EXCEPT ![c] = Tail(@)]
                /\ call' = [call EXCEPT ![s] = got]
                /\ UNCHANGED <<done, closed>>
          [] OTHER ->
                /\ queue' = [queue EXCEPT ![c] = Tail(@)]
                /\ Settle(s, RejectedWith(cl, IF ok THEN cl.err ELSE <<"ROLLBACK", 0>>))

\* the connection sends the statements of its queue one after another; an
\* ended connection fails them
Server(c) ==
    /\ Turn
    /\ queue[c] # <<>>
    /\ LET it == Head(queue[c])
           st == [text |-> it.text, key |-> it.key]
           a == IF Removed(c) THEN Answer(FALSE, users, seq, session[c])
                ELSE Execute(c, st)
       IN  /\ Removed(c) \/ ~Blocked(c, st)
           /\ users' = a.users
           /\ seq' = a.seq
           /\ session' = [session EXCEPT ![c] = a.ss]
           /\ Deliver(c, it, a.ok)
    /\ UNCHANGED <<instance, client, pool, conns, checkedOut, idle, dispatched,
                   harness, checkouts, releases>>
    /\ UNCHANGED <<products, orders, order_items, now, last, createdU, createdP,
                   orderCall, suite, calls>>

(* ------------------------------------------------- GrpcClient: the stubs *)
\* x || d for a string, and for a number
OrUndefinedKept(x, d) == IF x = "" THEN d ELSE x
Or(x, d) == IF x \in {Undefined, ""} THEN d ELSE x
OrNumber(x, d) == IF x = 0 THEN d ELSE x
\* obj.f || d for a numeric field the object may not have
OrNumberField(obj, f, d) == IF f \in DOMAIN obj THEN OrNumber(obj[f], d) ELSE d

\* { ...base, ...over } : the fields of over replace those of base
Spread(base, over) == over @@ base

\* GrpcClient.instance before the first getInstance(): no object
NoGrpcClient == [made |-> FALSE, number |-> 0, userService |-> FALSE,
                 productService |-> FALSE, orderService |-> FALSE]

\* initializeServices() of the n-th constructed object: the three stubs are
\* built one after another; failAt names the stub whose loading throws
\* (0: none), and the ones after it are never built
InitializeServices(n, failAt) ==
    [made |-> TRUE, number |-> n,
     userService |-> failAt \notin {1},
     productService |-> failAt \notin {1, 2},
     orderService |-> failAt \notin {1, 2, 3}]

\* GrpcClient.instance = new GrpcClient() : the constructor throws what
\* initializeServices() throws, and then nothing is assigned
AssignedInstanceEarly(inst, n, failAt) == InitializeServices(n, failAt)
AssignedInstance(inst, n, failAt) ==
    IF failAt = 0 THEN InitializeServices(n, failAt) ELSE inst

\* getConnectionStatus()
getConnectionStatus(inst) ==
    [userService |-> inst.userService, productService |-> inst.productService,
     orderService |-> inst.orderService]

\* getUserService(), getProductService(), getOrderService() throw when the
\* stub is not set
GetServiceThrows(inst, service) ==
    CASE service = "userService" -> ~inst.userService
      [] service = "productService" -> ~inst.productService
      [] OTHER -> ~inst.orderService

(* ----------------------------------------------------- the mock server *)
\* the handlers of userImpl, productImpl and orderImpl
MockMethods ==
    [userService |-> {"GetAllUsers", "CreateUser", "GetUserById", "GetUserByEmail",
                      "UpdateUser", "DeleteUser"},
     productService |-> {"GetAllProducts", "CreateProduct", "GetProductById",
                         "GetProductBySku", "UpdateProduct", "DeleteProduct"},
     orderService |-> {"GetAllOrders", "CreateOrder", "GetOrderById",
                       "GetOrderByNumber", "UpdateOrderStatus", "DeleteOrder",
                       "AddOrderItem", "GetOrderItems", "RemoveOrderItem"}]

ListAnswer(request) ==
    [success |-> TRUE, message |-> "OK", total |-> 0,
     page |-> OrNumber(request.page, 1), limit |-> OrNumber(request.limit, 100)]

EntityAnswer(message, entity) == [success |-> TRUE, message |-> message, entity |-> entity]

PlainAnswer(message) == [success |-> TRUE, message |-> message]

\* what the handler of the method passes to its callback
MockAnswer(method, request) ==
    CASE method \in {"GetAllUsers", "GetAllProducts", "GetAllOrders"} ->
            ListAnswer(request)
      [] method \in {"CreateUser", "CreateProduct", "CreateOrder"} ->
            EntityAnswer("created", Spread([id |-> 1], request))
      [] method = "AddOrderItem" ->
            EntityAnswer("added", Spread([id |-> 1], request))
      [] method \in {"GetUserById", "GetProductById", "GetOrderById"} ->
            EntityAnswer("OK", [id |-> OrNumber(request.id, 1)])
      [] method = "GetUserByEmail" ->
            EntityAnswer("OK", [email |-> Or(request.email, "")])
      [] method = "GetProductBySku" ->
            EntityAnswer("OK", [sku |-> Or(request.sku, "")])
      [] method = "GetOrderByNumber" ->
            EntityAnswer("OK", [order_number |-> Or(request.order_number, "")])
      [] method \in {"UpdateUser", "UpdateProduct"} ->
            EntityAnswer("updated", Spread([id |-> OrNumber(request.id, 1)], request))
      [] method = "UpdateOrderStatus" ->
            EntityAnswer("updated", [id |-> OrNumber(request.id, 1),
                                     status |-> request.status])
      [] method = "RemoveOrderItem" -> PlainAnswer("removed")
      [] method = "GetOrderItems" -> PlainAnswer("OK")
      [] OTHER -> PlainAnswer("deleted")

(* --------------------------------------------- GrpcService: the requests *)
ServiceOf ==
    [createUser |-> "userService", getUserById |-> "userService",
     getUserByEmail |-> "userService", getAllUsers |-> "userService",
     updateUser |-> "userService", deleteUser |-> "userService",
     createProduct |-> "productService", getProductById |-> "productService",
     getProductBySku |-> "productService", getAllProducts |-> "productService",
     getProductsByCategory |-> "productService", updateProduct |-> "productService",
     deleteProduct |-> "productService",
     createOrder |-> "orderService", getOrderById |-> "orderService",
     getOrderByNumber |-> "orderService", getAllOrders |-> "orderService",
     getOrdersByUserId |-> "orderService", updateOrderStatus |-> "orderService",
     deleteOrder |-> "orderService", addOrderItem |-> "orderService",
     getOrderItems |-> "orderService", removeOrderItem |-> "orderService"]

\* the remote method each operation passes to executeCall
MethodOf ==
    [createUser |-> "CreateUser", getUserById |-> "GetUserById",
     getUserByEmail |-> "GetUserByEmail", getAllUsers |-> "GetAllUsers",
     updateUser |-> "UpdateUser", deleteUser |-> "DeleteUser",
     createProduct |-> "CreateProduct", getProductById |-> "GetProductById",
     getProductBySku |-> "GetProductBySku", getAllProducts |-> "GetAllProducts",
     getProductsByCategory |-> "GetProductsByCategory",
     updateProduct |-> "UpdateProduct", deleteProduct |-> "DeleteProduct",
     createOrder |-> "CreateOrder", getOrderById |-> "GetOrderById",
     getOrderByNumber |-> "GetOrderByNumber", getAllOrders |-> "GetAllOrders",
     getOrdersByUserId |-> "GetOrdersByUserId",
     updateOrderStatus |-> "UpdateOrderStatus", deleteOrder |-> "DeleteOrder",
     addOrderItem |-> "AddOrderItem", getOrderItems |-> "GetOrderItems",
     removeOrderItem |-> "RemoveOrderItem"]

\* is_active: productData.is_active !== undefined ? productData.is_active : true
IsActiveAlwaysTrue(given) == "true"
IsActive(given) == IF given # Undefined THEN given ELSE "true"

\* the request object the operation builds from its arguments
Request(op, a) ==
    CASE op = "createUser" ->
            [username |-> a.username, email |-> a.email, phone |-> Or(a.phone, "")]
      [] op = "updateUser" ->
            [id |-> a.id, username |-> Or(a.username, ""), email |-> Or(a.email, ""),
             phone |-> Or(a.phone, "")]
      [] op = "createProduct" ->
            [name |-> a.name, sku |-> a.sku, image_url |-> Or(a.image_url, ""),
             is_active |-> IsActive(a.is_active)]
      [] op = "updateProduct" ->
            [id |-> a.id, name |-> Or(a.name, ""),
             price |-> OrNumberField(a, "price", 0),
             stock_quantity |-> OrNumberField(a, "stock_quantity", 0),
             sku |-> Or(a.sku, ""), image_url |-> Or(a.image_url, ""),
             is_active |-> IsActive(a.is_active)]
      [] op = "createOrder" ->
            [user_id |-> a.user_id, order_number |-> a.order_number,
             status |-> Or(a.status, "pending")]
      [] op = "addOrderItem" ->
            [order_id |-> a.order_id, product_id |-> a.product_id,
             quantity |-> a.quantity]
      [] op \in {"getAllUsers", "getAllProducts", "getAllOrders"} ->
            [page |-> a.page, limit |-> a.limit]
      [] op = "getProductsByCategory" ->
            [category |-> a.category, page |-> a.page, limit |-> a.limit]
      [] op = "getOrdersByUserId" ->
            [user_id |-> a.user_id, page |-> a.page, limit |-> a.limit]
      [] op = "getUserByEmail" -> [email |-> a.email]
      [] op = "getProductBySku" -> [sku |-> a.sku]
      [] op = "getOrderByNumber" -> [order_number |-> a.order_number]
      [] op = "updateOrderStatus" -> [id |-> a.id, status |-> a.status]
      [] op = "getOrderItems" -> [order_id |-> a.id]
      [] OTHER -> [id |-> a.id]

(* ------------------------------------------- GrpcClient: getInstance() *)
\* the methods a stub has are those its .proto file declares: the ones the
\* mock server implements and, when declared holds, the two it does not
StubMethods(service) ==
    MockMethods[service]
        \cup (IF ~declared THEN {}
              ELSE IF service = "productService" THEN {"GetProductsByCategory"}
              ELSE IF service = "orderService" THEN {"GetOrdersByUserId"}
              ELSE {})

\* if (!GrpcClient.instance) GrpcClient.instance = new GrpcClient();
\* return GrpcClient.instance
GrpcGetInstance(failAt) ==
    /\ phase = "tests"
    /\ \A s \in Slots : rpc[s].pc = "idle"
    /\ rpcCalls < MaxRpcCalls
    /\ rpcCalls' = rpcCalls + 1
    /\ grpcInstance.made => failAt = 0
    /\ LET n == constructions + 1
           held == IF grpcInstance.made THEN grpcInstance
                   ELSE AssignedInstance(grpcInstance, n, failAt)
       IN  /\ grpcInstance' = held
           /\ constructions' = IF grpcInstance.made THEN constructions ELSE n
           /\ gotInstance' = [threw |-> failAt # 0, instance |-> held]
           /\ returned' = IF failAt # 0 THEN returned ELSE returned \cup {held.number}
    /\ UNCHANGED <<channel, declared, rpc, settledRpc, createdIds, unrecorded, cleanup,
                   stage, phase>>

(* --------------------------------------------- GrpcClient: executeCall() *)
IdleRpc == [op |-> "none", service |-> "none", method |-> "none", pc |-> "idle",
            request |-> <<>>, args |-> <<>>, records |-> FALSE,
            invoked |-> 0, settles |-> 0, open |-> FALSE,
            cbError |-> "none", cbResponse |-> <<>>,
            outcome |-> "pending", error |-> "none", value |-> <<>>]

NewRpc(op, service, method, request, args, records) ==
    [IdleRpc EXCEPT !.op = op, !.service = service, !.method = method,
                    !.request = request, !.args = args, !.records = records]

\* service[method] is a function
HasMethod(service, method) == method \in StubMethods(service)

\* the callback passed to the stub: if (error) reject(error) else
\* resolve(response)
CallbackIgnoringError(cl, error, response) ==
    [cl EXCEPT !.pc = "settled", !.settles = @ + 1, !.outcome = "resolved",
               !.value = response]
Callback(cl, error, response) ==
    IF error # "none"
    THEN [cl EXCEPT !.pc = "settled", !.settles = @ + 1, !.outcome = "rejected",
                    !.error = error]
    ELSE [cl EXCEPT !.pc = "settled", !.settles = @ + 1, !.outcome = "resolved",
                    !.value = response]

\* a throw inside the executor of new Promise rejects the promise
ExecutorThrew(cl, error) ==
    [cl EXCEPT !.pc = "settled", !.settles = @ + 1, !.outcome = "rejected",
               !.error = error]

\* the test calls into the lowest free slot; only the creates of a
\* Promise.all are dispatched while another call is in flight
CanCall(s) ==
    /\ phase = "tests"
    /\ grpcInstance.made
    /\ rpcCalls < MaxRpcCalls
    /\ rpc[s].pc = "idle"
    /\ \A t \in Slots : t < s => rpc[t].pc # "idle"

\* executeCall(service, method, request): the stub's method is invoked once,
\* inside the executor of the promise
ExecuteCall(s, cl) ==
    /\ rpcCalls' = rpcCalls + 1
    /\ IF HasMethod(cl.service, cl.method)
       THEN /\ rpc' = [rpc EXCEPT ![s] = [cl EXCEPT !.pc = "pending", !.invoked = @ + 1,
                                                   !.open = (channel = "open")]]
            /\ settledRpc' = IdleRpc
       ELSE /\ settledRpc' = ExecutorThrew(cl, "TypeError")
            /\ UNCHANGED rpc
    /\ UNCHANGED <<grpcInstance, constructions, gotInstance, returned, channel,
                   declared, createdIds, unrecorded, cleanup, stage, phase>>

\* a GrpcService operation: get the stub, build the request, await executeCall
ServiceCall(s, op, a, records) ==
    /\ CanCall(s)
    /\ ~GetServiceThrows(grpcInstance, ServiceOf[op])
    /\ ExecuteCall(s, NewRpc(op, ServiceOf[op], MethodOf[op], Request(op, a), a, records))

\* a test that calls grpcClient.executeCall itself
DirectCall(s, service, method, request) ==
    /\ CanCall(s)
    /\ ~GetServiceThrows(grpcInstance, service)
    /\ ExecuteCall(s, NewRpc("executeCall", service, method, request, request, FALSE))

\* what grpc-js can pass to the callback of a call: the answer of the
\* server's handler, or a status error (no handler for the method, server
\* not reachable, deadline passed, channel closed)
Statuses(cl) ==
    IF channel = "closed" THEN {"CANCELLED"}
    ELSE {"UNAVAILABLE", "DEADLINE_EXCEEDED"}
            \cup (IF cl.method \in MockMethods[cl.service] THEN {"none"}
                  ELSE {"UNIMPLEMENTED"})

StatusCodes == {"none", "UNIMPLEMENTED", "UNAVAILABLE", "DEADLINE_EXCEEDED", "CANCELLED"}

CreateOps == {"createUser", "createProduct", "createOrder"}
ArrayOf == [createUser |-> "users", createProduct |-> "products", createOrder |-> "orders"]

\* the create returned a response the tests take for a created entity
Created(cl) ==
    /\ cl.op \in CreateOps
    /\ cl.outcome = "resolved"
    /\ cl.value.success
    /\ cl.value.entity.id # 0

\* grpc-js calls the callback, the promise settles and the awaiting test
\* runs on: a test that records pushes the id it got
RpcCallback(s, status) ==
    /\ rpc[s].pc = "pending"
    /\ status \in Statuses(rpc[s])
    /\ LET answer == IF status = "none" THEN MockAnswer(rpc[s].method, rpc[s].request)
                     ELSE <<>>
           cl == Callback([rpc[s] EXCEPT !.cbError = status, !.cbResponse = answer],
                          status, answer)
       IN  /\ settledRpc' = cl
           /\ rpc' = [rpc EXCEPT ![s] = IdleRpc]
           /\ IF Created(cl) /\ cl.records
              THEN createdIds' = [createdIds EXCEPT ![ArrayOf[cl.op]] =
                                     Append(@, cl.value.entity.id)]
              ELSE UNCHANGED createdIds
           /\ unrecorded' = IF Created(cl) /\ ~cl.records THEN unrecorded + 1
                            ELSE unrecorded
    /\ UNCHANGED <<grpcInstance, constructions, gotInstance, returned, channel,
                   declared, rpcCalls, cleanup, stage, phase>>

\* close(): the three stubs are closed
GrpcClose ==
    /\ phase = "tests"
    /\ \A s \in Slots : rpc[s].pc = "idle"
    /\ grpcInstance.made
    /\ channel = "open"
    /\ rpcCalls < MaxRpcCalls
    /\ rpcCalls' = rpcCalls + 1
    /\ channel' = "closed"
    /\ UNCHANGED <<grpcInstance, constructions, gotInstance, returned, declared,
                   rpc, settledRpc, createdIds, unrecorded, cleanup, stage, phase>>

(* ------------------------------------------------- the RPC suite: afterAll *)
\* the arrays afterAll cleans up, in its order
Stages == <<"orders", "products", "users">>

NoCallPending ==
    /\ \A s \in Slots : rpc[s].pc = "idle"
    /\ \A i \in DOMAIN cleanup : cleanup[i].pc # "pending"

\* await Promise.all(createdIds.map(id => grpcService.delete(id).catch(...)))
\* : every delete is called before the first await
AfterAllDeletes ==
    /\ phase \in {"tests", "afterAll"}
    /\ grpcInstance.made
    /\ NoCallPending
    /\ stage < Len(Stages)
    /\ stage' = stage + 1
    /\ phase' = "afterAll"
    /\ LET ids == createdIds[Stages[stage + 1]]
       IN  cleanup' = cleanup \o [i \in DOMAIN ids |->
                                     [array |-> Stages[stage + 1], id |-> ids[i],
                                      pc |-> "pending", open |-> (channel = "open")]]
    /\ UNCHANGED <<grpcInstance, constructions, gotInstance, returned, channel,
                   declared, rpc, settledRpc, rpcCalls, createdIds, unrecorded>>

\* a delete of afterAll settles; its error is caught and logged
CleanupCallback(i) ==
    /\ cleanup[i].pc = "pending"
    /\ cleanup' = [cleanup EXCEPT ![i].pc = "settled"]
    /\ UNCHANGED <<grpcInstance, constructions, gotInstance, returned, channel,
                   declared, rpc, settledRpc, rpcCalls, createdIds, unrecorded, stage,
                   phase>>

\* grpcService.close() at the end of afterAll
AfterAllClose ==
    /\ phase = "afterAll"
    /\ stage = Len(Stages)
    /\ NoCallPending
    /\ channel' = "closed"
    /\ phase' = "done"
    /\ UNCHANGED <<grpcInstance, constructions, gotInstance, returned, declared,
                   rpc, settledRpc, rpcCalls, createdIds, unrecorded, cleanup, stage>>

(* --------------------------------------------------- the RPC test inputs *)
RpcNames == {"k1", "k2"}
RpcIds == {0, 1}
UserData == [username : {"k1"}, email : {"k1"}, phone : {Undefined, "555"}]
ProductData == [name : {"k1"}, sku : {"k1"}, image_url : {Undefined, "", "url"},
                is_active : {Undefined, "true", "false"}]
OrderData == [user_id : {1}, order_number : {"k1"},
              status : {Undefined, "", "pending", "shipped"}]
Paging == [page : {1}, limit : {100}]

\* the updates of the product tests: a partial update leaves fields out
ProductUpdate(name, active) ==
    [id |-> 0, name |-> name, sku |-> Undefined, image_url |-> Undefined,
     is_active |-> active]
ProductAmounts == {<<>>, [price |-> 0, stock_quantity |-> 0],
                   [price |-> 5, stock_quantity |-> 3]}

ById == {"getUserById", "deleteUser", "getProductById", "deleteProduct", "getOrderById",
         "deleteOrder", "getOrderItems", "removeOrderItem"}
GetAll == {"getAllUsers", "getAllProducts", "getAllOrders"}

\* an operation, its arguments, and whether the calling test records the id
ServiceInputs ==
    {<<"createUser", u, r>> : u \in UserData, r \in BOOLEAN}
    \cup {<<"createProduct", p, TRUE>> : p \in ProductData}
    \cup {<<"createOrder", o, TRUE>> : o \in OrderData}
    \cup {<<op, [id |-> 1], FALSE>> : op \in ById}
    \cup {<<"getUserById", [id |-> 0], FALSE>>}
    \cup {<<op, pg, FALSE>> : op \in GetAll, pg \in Paging}
    \cup {<<"getUserByEmail", [email |-> e], FALSE>> : e \in {"", "k1"}}
    \cup {<<"getProductBySku", [sku |-> "k1"], FALSE>>}
    \cup {<<"getOrderByNumber", [order_number |-> "k1"], FALSE>>}
    \cup {<<"getProductsByCategory", [category |-> "k1", page |-> 1, limit |-> 100], FALSE>>}
    \cup {<<"getOrdersByUserId", [user_id |-> 1, page |-> 1, limit |-> 100], FALSE>>}
    \cup {<<"updateUser", [id |-> 1, username |-> n, email |-> e,
                           phone |-> Undefined], FALSE>> :
             n \in {"k2", Undefined}, e \in {Undefined, ""}}
    \cup {<<"updateProduct", ProductUpdate(n, a) @@ amounts, FALSE>> :
             n \in {"k1", ""}, a \in {Undefined, "true", "false"},
             amounts \in ProductAmounts}
    \cup {<<"updateOrderStatus", [id |-> id, status |-> "shipped"], FALSE>> : id \in RpcIds}
    \cup {<<"addOrderItem", [order_id |-> 1, product_id |-> 1, quantity |-> 1], FALSE>>}

\* the creates a test dispatches together
ConcurrentServiceInputs ==
    {in \in ServiceInputs : in[1] = "createUser" /\ in[3] /\ in[2].phone = Undefined}

DirectInputs ==
    {<<"userService", "NonExistentMethod", [id |-> 0]>>,
     <<"userService", "GetAllUsers", [page |-> 1, limit |-> 1]>>}

RpcStart(d) ==
    /\ grpcInstance = NoGrpcClient
    /\ constructions = 0
    /\ gotInstance = [threw |-> FALSE, instance |-> NoGrpcClient]
    /\ returned = {}
    /\ channel = "open"
    /\ declared = d
    /\ rpc = [s \in Slots |-> IdleRpc]
    /\ settledRpc = IdleRpc
    /\ rpcCalls = 0
    /\ createdIds = [users |-> <<>>, products |-> <<>>, orders |-> <<>>]
    /\ unrecorded = 0
    /\ cleanup = <<>>
    /\ stage = 0
    /\ phase = "tests"

(* ------------------------------------------------- the test data generator *)
\* a generated string: its fixed prefix, and the timestamp, index and random
\* suffix interpolated into it (0 where the template has none)
Text(prefix, timestamp, index, suffix) == <<prefix, timestamp, index, suffix>>

\* Math.random().toString(36).substring(2, 8)
Suffixes == 1..MaxSuffix

\* generateUsers(count): users testuser1 .. testuser<count>
generateUsers(count) ==
    [i \in 1..count |->
        [kind |-> "user",
         username |-> Text("testuser", 0, i, 0),
         email |-> Text("testuser@example.com", 0, i, 0)]]

\* generateProducts(count): skus SKU-000001 .. SKU-<count>
generateProducts(count) ==
    [i \in 1..count |->
        [kind |-> "product", name |-> Text("Test Product", 0, i, 0),
         sku |-> Text("SKU", 0, i, 0)]]

\* generateOrders(userIds, count): one order per user id, whatever count is;
\* each element reads the clock and draws a suffix
generateOrders(userIds, count, timestamp, suffixes) ==
    [i \in DOMAIN userIds |->
        [kind |-> "order", user_id |-> userIds[i],
         order_number |-> Text("ORD", timestamp, i, suffixes[i])]]

generateSingleUser(timestamp, suffix) ==
    [kind |-> "user",
     username |-> Text("singletestuser", timestamp, 0, suffix),
     email |-> Text("singletestuser@example.com", timestamp, 0, suffix)]

generateSingleProduct(timestamp, suffix) ==
    [kind |-> "product", name |-> Text("Single Test Product", timestamp, 0, 0),
     sku |-> Text("SKU-SINGLE", timestamp, 0, suffix)]

generateSingleOrder(userId, timestamp, suffix) ==
    [kind |-> "order", user_id |-> userId,
     order_number |-> Text("ORD-SINGLE", timestamp, 0, suffix)]

\* a generator call appends the entities it returns to those the process
\* has generated
NoGenCall == [op |-> "none", userIds |-> <<>>, count |-> 0, returned |-> <<>>]
Called(op, userIds, count, entities) ==
    genCall' = [op |-> op, userIds |-> userIds, count |-> count, returned |-> entities]

Generate(entities) ==
    /\ Len(generated) + Len(entities) <= MaxGenerated
    /\ generated' = generated \o entities
    /\ UNCHANGED genNow

\* Date.now() moves on
GenTick ==
    /\ genNow < MaxGenClock
    /\ genNow' = genNow + 1
    /\ UNCHANGED <<generated, genCall>>

Counts == 1..MaxCount
UserIdLists == UNION {[1..n -> {1}] : n \in Counts}

GenIdle ==
    /\ generated = <<>>
    /\ genNow = 0
    /\ genCall = NoGenCall

(* ----------------------------------------- DatabaseService: cleanupTestData *)
Tables == <<"users", "products", "orders", "order_items">>

\* the statements of the three strategies, in the order they are awaited
Truncate(tables) == [verb |-> "TRUNCATE", tables |-> tables]
DeleteFrom(table) == [verb |-> "DELETE", tables |-> {table}]
Strategies ==
    <<  <<Truncate({"order_items", "orders", "products", "users"})>>,
        <<Truncate({"order_items"}), Truncate({"orders"}), Truncate({"products"}),
          Truncate({"users"})>>,
        <<DeleteFrom("order_items"), DeleteFrom("orders"), DeleteFrom("products"),
          DeleteFrom("users")>>  >>

\* TRUNCATE ... CASCADE also truncates the tables that reference a named one
Referencing(tables) ==
    tables
        \cup (IF "users" \in tables THEN {"orders", "order_items"} ELSE {})
        \cup (IF "orders" \in tables \/ "products" \in tables THEN {"order_items"} ELSE {})

\* the store after a statement of a strategy: TRUNCATE empties the tables and
\* restarts their sequences; DELETE FROM removes all rows of its table and,
\* by ON DELETE CASCADE, the rows that reference them
AfterStatement(st) ==
    LET gone == IF st.verb = "TRUNCATE" THEN Referencing(st.tables) ELSE st.tables
        o == IF "orders" \in gone THEN EmptyTable
             ELSE IF "users" \in gone
             THEN Restrict(orders, {i \in DOMAIN orders : orders[i].user_id = Null})
             ELSE orders
        it == IF "order_items" \in gone THEN EmptyTable
              ELSE LET a == IF "products" \in gone
                            THEN Restrict(order_items,
                                          {i \in DOMAIN order_items :
                                              order_items[i].product_id = Null})
                            ELSE order_items
                   IN  ItemsAfterOrdersDelete(a, DOMAIN o)
    IN  [users |-> IF "users" \in gone THEN EmptyTable ELSE users,
         products |-> IF "products" \in gone THEN EmptyTable ELSE products,
         orders |-> o,
         order_items |-> it,
         seq |-> IF st.verb = "TRUNCATE"
                 THEN [t \in DOMAIN seq |-> IF t \in gone THEN 0 ELSE seq[t]]
                 ELSE seq]

\* SELECT COUNT(*) FROM table
Count(table) ==
    CASE table = "users" -> Cardinality(DOMAIN users)
      [] table = "products" -> Cardinality(DOMAIN products)
      [] table = "orders" -> Cardinality(DOMAIN orders)
      [] OTHER -> Cardinality(DOMAIN order_items)

\* verifyCleanup(): the four counts all equal '0'; a query that threw (-1)
\* makes it return false
IsCleanAlways(counts) == TRUE
IsClean(counts) == \A i \in DOMAIN counts : counts[i] = 0

\* a cleanupTestData() call: its position, the strategy it is in, the counts
\* its verification has read, and how each strategy it left has ended
IdleCleanup == [pc |-> "idle", strategy |-> 0, step |-> 0, counts |-> <<>>,
                ended |-> <<>>, outcome |-> "pending", inserts |-> 0]

StoreUnchangedByCleanup == UNCHANGED <<users, products, orders, order_items, seq>>

\* the catch of a strategy: the next strategy starts, or the last one's
\* error is thrown
NextStrategy(c, how) ==
    IF c.strategy < Len(Strategies)
    THEN [c EXCEPT !.pc = "statements", !.strategy = @ + 1, !.step = 1, !.counts = <<>>,
                   !.ended = Append(@, how)]
    ELSE [c EXCEPT !.pc = "settled", !.outcome = "rejected", !.ended = Append(@, how)]

\* cleanupTestData() is called: the first strategy starts
CleanupStart ==
    /\ cln.pc = "idle"
    /\ cln' = [cln EXCEPT !.pc = "statements", !.strategy = 1, !.step = 1]
    /\ StoreUnchangedByCleanup

\* await this.db.query(statement) of the current strategy; after the last
\* one, resetClient() and then verifyCleanup()
CleanupStatement(ok) ==
    /\ cln.pc = "statements"
    /\ LET sts == Strategies[cln.strategy]
           after == AfterStatement(sts[cln.step])
       IN  IF ok
           THEN /\ users' = after.users
                /\ products' = after.products
                /\ orders' = after.orders
                /\ order_items' = after.order_items
                /\ seq' = after.seq
                /\ cln' = IF cln.step < Len(sts) THEN [cln EXCEPT !.step = @ + 1]
                          ELSE [cln EXCEPT !.pc = "verify", !.step = 1]
           ELSE /\ cln' = NextStrategy(cln, "threw")
                /\ StoreUnchangedByCleanup

\* one SELECT COUNT(*) of verifyCleanup(); after the fourth, isClean decides
\* between returning and throwing 'verification failed'; a count that throws
\* ends verifyCleanup() with false
CleanupCount(ok) ==
    /\ cln.pc = "verify"
    /\ LET counts == Append(cln.counts, Count(Tables[cln.step]))
       IN  cln' = IF ~ok THEN NextStrategy([cln EXCEPT !.counts = Append(@, -1)],
                                           "verification failed")
                  ELSE IF cln.step < Len(Tables)
                  THEN [cln EXCEPT !.step = @ + 1, !.counts = counts]
                  ELSE IF IsClean(counts)
                  THEN [cln EXCEPT !.pc = "settled", !.outcome = "resolved",
                                   !.counts = counts, !.ended = Append(@, "verified")]
                  ELSE NextStrategy([cln EXCEPT !.counts = counts], "verification failed")
    /\ StoreUnchangedByCleanup

\* a test of another worker process creates a user or a product while the
\* cleanup is between two of its awaits
OtherWorkerInsert(table, k) ==
    /\ cln.pc \in {"statements", "verify"}
    /\ cln.inserts < MaxInserts
    /\ cln' = [cln EXCEPT !.inserts = @ + 1]
    /\ IF table = "users"
       THEN LET id == seq.users + 1
                row == UserRow([username |-> k, email |-> k, first_name |-> k])
            IN  /\ UsersConstraintOk(users, id, row)
                /\ users' = Extend(users, id, row)
                /\ seq' = [seq EXCEPT !.users = id]
                /\ UNCHANGED products
       ELSE LET id == seq.products + 1
                row == ProductRow([sku |-> k, name |-> k, price |-> k])
            IN  /\ ProductsConstraintOk(products, id, row)
                /\ products' = Extend(products, id, row)
                /\ seq' = [seq EXCEPT !.products = id]
                /\ UNCHANGED users
    /\ UNCHANGED <<orders, order_items>>

CleanupIdle == cln = IdleCleanup

(* ------------------------------------------------- CartPage: the cart rows *)
\* the cart page: the rows the page shows, the operation under way, one entry
\* per dispatched click, the rows whose removal the page has been asked for
\* and has not yet made, and how the operation ended
IdleCart == [rows |-> <<>>, op |-> "none", pc |-> "idle", clicks |-> <<>>,
             removing |-> {}, outcome |-> "pending"]
CartIdle == cart = IdleCart

\* the carts a test can open the page on: n distinct products
Carts == {[IdleCart EXCEPT !.rows = [i \in 1..n |-> i]] : n \in 0..MaxItems}

\* this.removeButtons.count(): one remove button per row
ButtonCount(rows) == Len(rows)

\* removeButtons.nth(i): the locator is resolved when the click acts, against
\* the rows the page shows then; <<>> when there is no such button
Nth(rows, i) == IF i + 1 <= Len(rows) THEN <<rows[i + 1]>> ELSE <<>>

\* the rows without one product
WithoutRow(rows, r) == SelectSeq(rows, LAMBDA x : x # r)

\* removeItem(itemIndex): count, range check, click and waitForPageLoad, each
\* awaited in turn
removeItem(itemIndex) ==
    /\ cart.pc \in {"idle", "settled"}
    /\ cart' = IF itemIndex >= ButtonCount(cart.rows)
               THEN [cart EXCEPT !.op = "removeItem", !.pc = "settled",
                                 !.clicks = <<>>, !.outcome = "rejected"]
               ELSE [cart EXCEPT !.op = "removeItem", !.pc = "settled",
                                 !.clicks = <<>>, !.outcome = "fulfilled",
                                 !.rows = WithoutRow(cart.rows,
                                                     Nth(cart.rows, itemIndex)[1])]

\* clearCart(): count the buttons, then map() dispatches one click per index
\* before the first of them is awaited
clearCart ==
    /\ cart.pc \in {"idle", "settled"}
    /\ cart' = [cart EXCEPT !.op = "clearCart", !.pc = "clearing",
                            !.clicks = [i \in 1..ButtonCount(cart.rows) |-> "waiting"],
                            !.outcome = "pending"]

\* await removeButtons.nth(i).click() acts: the button at that index now
Click(i) ==
    /\ cart.pc = "clearing"
    /\ i + 1 \in DOMAIN cart.clicks
    /\ cart.clicks[i + 1] = "waiting"
    /\ Nth(cart.rows, i) # <<>>
    /\ cart' = [cart EXCEPT !.clicks[i + 1] = "clicked",
                            !.removing = @ \cup {Nth(cart.rows, i)[1]}]

\* the page removes a row whose button was clicked
PageRemoves(r) ==
    /\ r \in cart.removing
    /\ cart' = [cart EXCEPT !.rows = WithoutRow(@, r), !.removing = @ \ {r}]

\* a click whose index has no button waits for one until it times out; the
\* rows only get fewer, so Promise.all rejects
ClickTimeout(i) ==
    /\ cart.pc = "clearing"
    /\ i + 1 \in DOMAIN cart.clicks
    /\ cart.clicks[i + 1] = "waiting"
    /\ Nth(cart.rows, i) = <<>>
    /\ cart.removing = {}
    /\ cart' = [cart EXCEPT !.pc = "settled", !.outcome = "rejected"]

\* every click has acted and waitForPageLoad() found the network idle
ClearCartResolves ==
    /\ cart.pc = "clearing"
    /\ \A j \in DOMAIN cart.clicks : cart.clicks[j] = "clicked"
    /\ cart.removing = {}
    /\ cart' = [cart EXCEPT !.pc = "settled", !.outcome = "fulfilled"]

\* isCartEmpty(): the empty-cart message shows when no row is left
isCartEmpty == cart.rows = <<>>

(* ---------------------------------------- the RPC tests: try and catch *)
\* the steps of a test body inside its try block
AwaitCall(op, data, into) == [step |-> "call", op |-> op, data |-> data, var |-> into]
ExpectDefined(v) == [step |-> "defined", op |-> "", data |-> <<>>, var |-> v]
ExpectSuccess(v, b) == [step |-> "success", op |-> "", data |-> [value |-> b], var |-> v]
ExpectEntity(v) == [step |-> "entity", op |-> "", data |-> <<>>, var |-> v]
ExpectEcho(v, f, x) == [step |-> "echo", op |-> "", data |-> [field |-> f, value |-> x], var |-> v]
ReadId(v) == [step |-> "id", op |-> "", data |-> <<>>, var |-> v]

TestUser == [username |-> "k1", email |-> "k1", phone |-> Undefined]
TestProduct == [name |-> "k1", sku |-> "k1", image_url |-> Undefined, is_active |-> Undefined]
TestOrder == [user_id |-> 1, order_number |-> "k1", status |-> "pending"]

\* create, create again with the same data, expect the second to be refused
DuplicateScript(op, data) ==
    <<AwaitCall(op, data, 1), ExpectSuccess(1, TRUE), ReadId(1),
      AwaitCall(op, data, 2), ExpectSuccess(2, FALSE)>>
DuplicateOrderScript ==
    <<AwaitCall("createUser", TestUser, 1), ExpectSuccess(1, TRUE), ReadId(1)>>
        \o [i \in 1..5 |->
               [DuplicateScript("createOrder", TestOrder)[i] EXCEPT !.var = @ + 1]]

DuplicateTests ==
    {"should handle duplicate email creation", "should enforce unique usernames",
     "should handle duplicate SKU creation", "should enforce unique SKUs",
     "should handle duplicate order number creation", "should enforce unique order numbers"}

Tests ==
    DuplicateTests
        \cup {"should create a new user successfully", "should delete user successfully",
              "should validate price range"}

Script(test) ==
    CASE test \in {"should handle duplicate email creation",
                   "should enforce unique usernames"} ->
            DuplicateScript("createUser", TestUser)
      [] test \in {"should handle duplicate SKU creation", "should enforce unique SKUs"} ->
            DuplicateScript("createProduct", TestProduct)
      [] test \in {"should handle duplicate order number creation",
                   "should enforce unique order numbers"} ->
            DuplicateOrderScript
      [] test = "should create a new user successfully" ->
            <<AwaitCall("createUser", TestUser, 1), ExpectDefined(1), ExpectSuccess(1, TRUE),
              ExpectEntity(1), ExpectEcho(1, "username", TestUser.username),
              ExpectEcho(1, "email", TestUser.email), ReadId(1)>>
      [] test = "should delete user successfully" ->
            <<AwaitCall("createUser", TestUser, 1), ExpectSuccess(1, TRUE), ReadId(1),
              AwaitCall("deleteUser", [id |-> 1], 2), ExpectDefined(2),
              ExpectSuccess(2, TRUE),
              AwaitCall("getUserById", [id |-> 1], 3), ExpectSuccess(3, FALSE)>>
      [] OTHER ->
            <<AwaitCall("createProduct", TestProduct, 1), ExpectSuccess(1, FALSE)>>

\* what a server can do with a call: answer as the shipped mock does, answer
\* success: false, answer something without the expected fields, or fail it
Behaviours == {"success", "refused", "unexpected", "rejected"}
NoResponse == [none |-> TRUE]
Response(behaviour, op, data) ==
    CASE behaviour = "success" -> MockAnswer(MethodOf[op], Request(op, data))
      [] behaviour = "refused" -> [success |-> FALSE, message |-> "refused"]
      [] OTHER -> [message |-> "OK"]

\* expect(value).toBeDefined()
ToBeDefinedNever(value) == FALSE
ToBeDefined(value) == value # Undefined

\* what one step inside the try block throws: nothing, the error the call
\* rejected with, the error of a failed expect, or the TypeError of reading a
\* property of undefined
Passes == "nothing"
Thrown(st, responses, behaviour) ==
    LET r == responses[st.var]
        has(f) == f \in DOMAIN r
    IN  CASE st.step = "call" ->
                IF behaviour = "rejected" THEN "ServiceError" ELSE Passes
          [] st.step = "defined" -> Passes
          [] st.step = "success" ->
                IF has("success") /\ r.success = st.data.value THEN Passes ELSE "ExpectError"
          [] st.step = "entity" -> IF has("entity") THEN Passes ELSE "ExpectError"
          [] st.step = "echo" ->
                IF ~has("entity") THEN "TypeError"
                ELSE IF st.data.field \in DOMAIN r.entity
                        /\ r.entity[st.data.field] = st.data.value
                THEN Passes ELSE "ExpectError"
          [] OTHER -> IF has("entity") THEN Passes ELSE "TypeError"

\* a test: the server it runs against, its position, the responses its calls
\* resolved with, the error its try block threw, and how it ended
IdleTrial == [test |-> "none", server |-> "mock", pc |-> "idle", step |-> 0,
              responses |-> [v \in 1..3 |-> NoResponse], error |-> Undefined,
              outcome |-> "pending"]
TrialIdle == trial = IdleTrial /\ CartIdle

\* the runner starts a test
StartTest(t, server) ==
    /\ trial.pc \in {"idle", "ended"}
    /\ trial' = [IdleTrial EXCEPT !.test = t, !.server = server, !.pc = "try", !.step = 1]

\* the next statement of the try block runs; a throw moves to the catch
\* block, the end of the block ends the test as passed
TryStep(behaviour) ==
    /\ trial.pc = "try"
    /\ trial.server = "mock" => behaviour = "success"
    /\ LET script == Script(trial.test)
           st == script[trial.step]
           thrown == Thrown(st, trial.responses, behaviour)
           next == [trial EXCEPT !.step = @ + 1,
                                 !.responses = IF st.step = "call" /\ thrown = Passes
                                               THEN [@ EXCEPT ![st.var] =
                                                        Response(behaviour, st.op, st.data)]
                                               ELSE @]
       IN  trial' = IF thrown # Passes
                    THEN [trial EXCEPT !.pc = "catch", !.error = thrown]
                    ELSE IF trial.step = Len(script)
                    THEN [next EXCEPT !.pc = "ended", !.outcome = "passed"]
                    ELSE next

\* catch (error) { expect(error).toBeDefined(); }
CatchStep ==
    /\ trial.pc = "catch"
    /\ trial' = [trial EXCEPT !.pc = "ended",
                              !.outcome = IF ToBeDefined(trial.error) THEN "passed"
                                          ELSE "failed"]

\* no creates dispatched together yet
NoBulk == [phase |-> "dispatching", sent |-> {}, ids |-> <<>>, rejected |-> {},
           listed |-> <<>>]
BulkIdle == bulk = NoBulk

\* the subsystems a run does not exercise stay as the process starts them
OthersIdle == RpcStart(FALSE) /\ GenIdle /\ CleanupIdle /\ BulkIdle /\ TrialIdle

(* ------------------------------------------------ the connection harness *)
QueryTexts == {Insert(k) : k \in Keys} \cup {Invalid}
TransactionInputs == UNION {[1..n -> QueryTexts] : n \in 0..MaxStatements}

\* calls dispatched together carry the SELECT or the statement the server
\* rejects
ConcurrentTexts == {Select, Invalid}
ConcurrentInputs == {<<st>> : st \in ConcurrentTexts}

\* the pool as a run finds it: untouched, or with the connection an earlier
\* test used and reset
PoolFixtures ==
    {[instance |-> 0, conns |-> 0, idle |-> {}],
     [instance |-> 1, conns |-> 1, idle |-> {1}]}

ManagerInit(h, fx) ==
    /\ harness = h
    /\ instance = fx.instance
    /\ client = Null
    /\ pool = "open"
    /\ conns = fx.conns
    /\ checkedOut = {}
    /\ idle = fx.idle
    /\ queue = [c \in Clients |-> <<>>]
    /\ session = [c \in Clients |-> IdleSession]
    /\ call = [s \in Slots |-> IdleCall]
    /\ done = IdleCall
    /\ dispatched = 0
    /\ checkouts = fx.conns
    /\ releases = fx.conns
    /\ closed = FALSE

StoreInit ==
    /\ users = EmptyTable
    /\ products = EmptyTable
    /\ orders = EmptyTable
    /\ order_items = EmptyTable
    /\ seq = [users |-> 0, products |-> 0, orders |-> 0, order_items |-> 0]
    /\ now = 0
    /\ last = Call("none", Null, NullResult)
    /\ createdU = EmptyTable
    /\ createdP = EmptyTable
    /\ orderCall = <<>>
    /\ suite = "database-setup"
    /\ calls = 0

FreshManager == [instance |-> 0, conns |-> 0, idle |-> {}]

ConnInit ==
    /\ StoreInit
    /\ \E fx \in PoolFixtures : ManagerInit("concurrent", fx)
    /\ OthersIdle
TxnInit == StoreInit /\ ManagerInit("awaited", FreshManager) /\ OthersIdle

ConnNext ==
    \/ /\ \E s \in Slots : CanDispatch(s) /\ \E st \in ConcurrentTexts : DispatchQuery(s, st)
       /\ UNCHANGED otherVars
    \/ /\ \E s \in Slots :
             CanDispatch(s) /\ \E qs \in ConcurrentInputs : DispatchTransaction(s, qs)
       /\ UNCHANGED otherVars
    \/ /\ \E s \in Slots : DispatchResetClient(s)
       /\ UNCHANGED otherVars
    \/ /\ \E s \in Slots : DispatchClose(s)
       /\ UNCHANGED otherVars
    \/ /\ \E s \in Slots : Connected(s)
       /\ UNCHANGED otherVars
    \/ /\ \E s \in Slots : ConnectTimeout(s)
       /\ UNCHANGED otherVars
    \/ /\ \E s \in Slots : Send(s)
       /\ UNCHANGED otherVars
    \/ /\ \E c \in Clients : Server(c)
       /\ UNCHANGED otherVars
    \/ /\ \E s \in Slots : CloseResolves(s)
       /\ UNCHANGED otherVars

TxnNext ==
    \/ /\ \E s \in Slots : CanDispatch(s) /\ \E st \in QueryTexts : DispatchQuery(s, st)
       /\ UNCHANGED otherVars
    \/ /\ \E s \in Slots :
             CanDispatch(s) /\ \E qs \in TransactionInputs : DispatchTransaction(s, qs)
       /\ UNCHANGED otherVars
    \/ /\ \E s \in Slots : DispatchResetClient(s)
       /\ UNCHANGED otherVars
    \/ /\ \E s \in Slots : DispatchClose(s)
       /\ UNCHANGED otherVars
    \/ /\ \E s \in Slots : Connected(s)
       /\ UNCHANGED otherVars
    \/ /\ \E s \in Slots : Send(s)
       /\ UNCHANGED otherVars
    \/ /\ \E c \in Clients : Server(c)
       /\ UNCHANGED otherVars
    \/ /\ \E s \in Slots : CloseResolves(s)
       /\ UNCHANGED otherVars

SpecConn == ConnInit /\ [][ConnNext]_vars
SpecTxn == TxnInit /\ [][TxnNext]_vars

(* ------------------------------------------------------ the test inputs *)
\* generated entities: the ordinary fields follow the first natural key
UserInputs == {u \in [username : Keys, email : Keys, first_name : Keys] :
                  u.first_name = u.username}
ProductInputs == {p \in [sku : Keys, name : Keys, price : Keys] :
                     p.name = p.sku /\ p.price = p.sku}
\* the ids a test passes: those a sequence has handed out, and the next one,
\* which no row has
IdsOf(table) == 1..(seq[table] + 1)
OrderInputs == [user_id : IdsOf("users"), order_number : Keys, status : {"pending"}]
OrderItemInputs == [order_id : IdsOf("orders"), product_id : IdsOf("products"),
                    quantity : {1}]

\* updates objects for the entity id: none, one column, two columns given one
\* value, and the entity's own id before or after a column (an object spread from the
\* loaded entity carries it); col is a unique column, other an ordinary one
UpdatesFor(id, col, other) ==
    {<<>>, <<<<"id", id>>>>}
    \cup {<<<<col, v>>>> : v \in Keys}
    \cup {<<<<other, v>>>> : v \in Keys}
    \cup {<<<<col, v>>, <<other, v>>>> : v \in Keys}
    \cup {<<<<"id", id>>, <<other, v>>>> : v \in Keys}
    \cup {<<<<other, v>>, <<"id", id>>>> : v \in Keys}

\* the order suite creates its users and products from one value per row
PlainUserInputs == {u \in UserInputs : u.email = u.username}
PlainProductInputs == ProductInputs

Suites == {"user-crud", "product-crud", "order-crud", "order-status", "defaults"}

\* what the order tests arrange before they act: nothing; two users and two
\* products; or those with an order per user and three order items
SeedUsers == [i \in {1, 2} |-> [username |-> i, email |-> i, first_name |-> i,
                                created_at |-> 0, updated_at |-> 0]]
SeedProducts == [i \in {1, 2} |-> [sku |-> i, name |-> i, price |-> i,
                                   image_url |-> "url", is_active |-> "true",
                                   created_at |-> 0, updated_at |-> 0]]
SeedOrders == [i \in {1, 2} |-> [user_id |-> i, order_number |-> i, status |-> "pending",
                                 created_at |-> 0, updated_at |-> 0]]
SeedItems == [i \in {1, 2, 3} |->
                 [order_id |-> IF i = 2 THEN 2 ELSE 1,
                  product_id |-> IF i = 1 THEN 1 ELSE 2, quantity |-> 1]]
Fixtures ==
    {[users |-> EmptyTable, products |-> EmptyTable, orders |-> EmptyTable,
      order_items |-> EmptyTable],
     [users |-> SeedUsers, products |-> SeedProducts, orders |-> EmptyTable,
      order_items |-> EmptyTable],
     [users |-> SeedUsers, products |-> SeedProducts, orders |-> SeedOrders,
      order_items |-> SeedItems]}

DbInit ==
    /\ suite \in Suites
    /\ \E fx \in Fixtures :
          /\ suite \notin {"order-crud", "order-status", "defaults"} => fx.users = EmptyTable
          /\ suite = "defaults" => fx.products = EmptyTable \/ fx.orders # EmptyTable
          /\ suite = "order-status" => fx.orders # EmptyTable
          /\ users = fx.users
          /\ products = fx.products
          /\ orders = fx.orders
          /\ order_items = fx.order_items
          /\ seq = [users |-> Cardinality(DOMAIN fx.users),
                    products |-> Cardinality(DOMAIN fx.products),
                    orders |-> Cardinality(DOMAIN fx.orders),
                    order_items |-> Cardinality(DOMAIN fx.order_items)]
          /\ createdU = [i \in DOMAIN fx.users |-> <<fx.users[i].username, fx.users[i].email>>]
          /\ createdP = [i \in DOMAIN fx.products |-> fx.products[i].sku]
    /\ now = 0
    /\ last = Call("none", Null, NullResult)
    /\ orderCall = <<>>
    /\ calls = 0
    /\ ManagerInit("awaited", FreshManager)
    /\ OthersIdle

UserCrud ==
    /\ suite = "user-crud"
    /\ \/ \E u \in UserInputs : CreateUser(u)
       \/ \E id \in IdsOf("users") : GetUserById(id)
       \/ \E e \in Keys : GetUserByEmail(e)
       \/ \E id \in IdsOf("users") : \E upd \in UpdatesFor(id, "email", "first_name") :
             UpdateUser(id, upd)
       \/ \E id \in IdsOf("users") : DeleteUser(id)

ProductCrud ==
    /\ suite = "product-crud"
    /\ \/ \E p \in ProductInputs : CreateProduct(p)
       \/ \E id \in IdsOf("products") : GetProductById(id)
       \/ \E k \in Keys : GetProductBySku(k)
       \/ \E id \in IdsOf("products") : \E upd \in UpdatesFor(id, "sku", "price") :
             UpdateProduct(id, upd)
       \/ \E id \in IdsOf("products") : DeleteProduct(id)

OrderCrud ==
    /\ suite = "order-crud"
    /\ \/ \E u \in PlainUserInputs : CreateUser(u)
       \/ \E p \in PlainProductInputs : CreateProduct(p)
       \/ \E o \in OrderInputs : CreateOrderCheck(o)
       \/ \E id \in IdsOf("users") : GetUserById(id)
       \/ \E id \in IdsOf("products") : GetProductById(id)
       \/ \E id \in IdsOf("orders") : GetOrderById(id)
       \/ \E id \in IdsOf("orders") : DeleteOrder(id)
       \/ \E id \in IdsOf("users") : DeleteUser(id)
       \/ \E id \in IdsOf("products") : DeleteProduct(id)
       \/ \E it \in OrderItemInputs : AddOrderItem(it)
       \/ \E id \in IdsOf("order_items") : RemoveOrderItem(id)

\* the status tests act on the orders the arrange step created
OrderStatusCrud ==
    /\ suite = "order-status"
    /\ \/ \E id \in IdsOf("orders") : \E st \in OrderStatuses : UpdateOrderStatus(id, st)
       \/ \E id \in IdsOf("orders") : GetOrderById(id)

\* the tests that create a product or an order without its optional fields
MinimalProducts == {p \in [sku : Keys, name : Keys, price : Keys, image_url : {Undefined, "url"},
                           is_active : {Undefined, "false"}] :
                       p.name = p.sku /\ p.price = p.sku}
MinimalOrders == [user_id : {1}, order_number : Keys, status : {Undefined, "shipped"}]
DefaultsCrud ==
    /\ suite = "defaults"
    /\ \/ \E p \in MinimalProducts : CreateProduct(p)
       \/ \E o \in MinimalOrders : CreateOrderCheck(o)
       \/ \E id \in IdsOf("products") : GetProductById(id)

\* a test makes one call after another, up to MaxCalls of them
DbCall ==
    /\ calls < MaxCalls
    /\ calls' = calls + 1
    /\ UserCrud \/ ProductCrud \/ OrderCrud \/ OrderStatusCrud \/ DefaultsCrud

DbNext ==
    \/ DbCall /\ UNCHANGED <<suite, connVars, otherVars>>
    \/ CreateOrderInsert /\ UNCHANGED <<suite, calls, connVars, otherVars>>
    \/ Tick /\ UNCHANGED <<suite, calls, connVars, otherVars>>

SpecDb == DbInit /\ [][DbNext]_vars

(* ----------------------------------------------------------- the RPC suite *)
RpcInit ==
    /\ StoreInit
    /\ ManagerInit("awaited", FreshManager)
    /\ GenIdle
    /\ CleanupIdle
    /\ BulkIdle
    /\ TrialIdle
    /\ \E d \in BOOLEAN : RpcStart(d)

RpcNext ==
    \/ /\ \E failAt \in 0..3 : GrpcGetInstance(failAt)
       /\ UNCHANGED <<dbVars, connVars, genVars, clnVars, bulkVars, testVars>>
    \/ /\ \E s \in Slots :
             CanCall(s) /\ \E in \in IF s = 1 THEN ServiceInputs ELSE ConcurrentServiceInputs :
                              ServiceCall(s, in[1], in[2], in[3])
       /\ UNCHANGED <<dbVars, connVars, genVars, clnVars, bulkVars, testVars>>
    \/ /\ \E in \in DirectInputs : DirectCall(1, in[1], in[2], in[3])
       /\ UNCHANGED <<dbVars, connVars, genVars, clnVars, bulkVars, testVars>>
    \/ /\ \E s \in Slots : \E status \in StatusCodes : RpcCallback(s, status)
       /\ UNCHANGED <<dbVars, connVars, genVars, clnVars, bulkVars, testVars>>
    \/ GrpcClose /\ UNCHANGED <<dbVars, connVars, genVars, clnVars, bulkVars, testVars>>
    \/ AfterAllDeletes /\ UNCHANGED <<dbVars, connVars, genVars, clnVars, bulkVars, testVars>>
    \/ /\ \E i \in DOMAIN cleanup : CleanupCallback(i)
       /\ UNCHANGED <<dbVars, connVars, genVars, clnVars, bulkVars, testVars>>
    \/ AfterAllClose /\ UNCHANGED <<dbVars, connVars, genVars, clnVars, bulkVars, testVars>>

SpecRpc == RpcInit /\ [][RpcNext]_vars

(* ------------------------------------------------------ the generator runs *)
GenInit ==
    /\ StoreInit
    /\ ManagerInit("awaited", FreshManager)
    /\ RpcStart(FALSE)
    /\ CleanupIdle
    /\ BulkIdle
    /\ TrialIdle
    /\ GenIdle

GenNext ==
    \/ /\ \E n \in Counts :
             Generate(generateUsers(n)) /\ Called("generateUsers", <<>>, n, generateUsers(n))
       /\ UNCHANGED <<dbVars, connVars, rpcVars, clnVars, bulkVars, testVars>>
    \/ /\ \E n \in Counts :
             /\ Generate(generateProducts(n))
             /\ Called("generateProducts", <<>>, n, generateProducts(n))
       /\ UNCHANGED <<dbVars, connVars, rpcVars, clnVars, bulkVars, testVars>>
    \/ /\ \E ids \in UserIdLists : \E n \in Counts : \E sx \in [DOMAIN ids -> Suffixes] :
             /\ Generate(generateOrders(ids, n, genNow, sx))
             /\ Called("generateOrders", ids, n, generateOrders(ids, n, genNow, sx))
       /\ UNCHANGED <<dbVars, connVars, rpcVars, clnVars, bulkVars, testVars>>
    \/ /\ \E sx \in Suffixes :
             /\ Generate(<<generateSingleUser(genNow, sx)>>)
             /\ Called("generateSingleUser", <<>>, 1, <<generateSingleUser(genNow, sx)>>)
       /\ UNCHANGED <<dbVars, connVars, rpcVars, clnVars, bulkVars, testVars>>
    \/ /\ \E sx \in Suffixes :
             /\ Generate(<<generateSingleProduct(genNow, sx)>>)
             /\ Called("generateSingleProduct", <<>>, 1, <<generateSingleProduct(genNow, sx)>>)
       /\ UNCHANGED <<dbVars, connVars, rpcVars, clnVars, bulkVars, testVars>>
    \/ /\ \E sx \in Suffixes :
             /\ Generate(<<generateSingleOrder(1, genNow, sx)>>)
             /\ Called("generateSingleOrder", <<1>>, 1, <<generateSingleOrder(1, genNow, sx)>>)
       /\ UNCHANGED <<dbVars, connVars, rpcVars, clnVars, bulkVars, testVars>>
    \/ GenTick /\ UNCHANGED <<dbVars, connVars, rpcVars, clnVars, bulkVars, testVars>>

SpecGen == GenInit /\ [][GenNext]_vars

(* ------------------------------------------------------ the cleanup runs *)
\* a cleanupTestData() call finds the store as a test left it
CleanupInit ==
    /\ \E fx \in Fixtures :
          /\ users = fx.users
          /\ products = fx.products
          /\ orders = fx.orders
          /\ order_items = fx.order_items
          /\ seq = [users |-> Cardinality(DOMAIN fx.users),
                    products |-> Cardinality(DOMAIN fx.products),
                    orders |-> Cardinality(DOMAIN fx.orders),
                    order_items |-> Cardinality(DOMAIN fx.order_items)]
    /\ now = 0
    /\ last = Call("none", Null, NullResult)
    /\ createdU = EmptyTable
    /\ createdP = EmptyTable
    /\ orderCall = <<>>
    /\ suite = "database-setup"
    /\ calls = 0
    /\ ManagerInit("awaited", FreshManager)
    /\ RpcStart(FALSE)
    /\ GenIdle
    /\ CleanupIdle
    /\ BulkIdle
    /\ TrialIdle

CleanupFrame ==
    UNCHANGED <<now, last, createdU, createdP, orderCall, suite, calls, connVars, rpcVars,
                genVars, bulkVars, testVars>>

CleanupNext ==
    \/ CleanupStart /\ CleanupFrame
    \/ (\E ok \in BOOLEAN : CleanupStatement(ok)) /\ CleanupFrame
    \/ (\E ok \in BOOLEAN : CleanupCount(ok)) /\ CleanupFrame
    \/ (\E t \in {"users", "products"} : \E k \in Keys : OtherWorkerInsert(t, k))
          /\ CleanupFrame

SpecCleanup == CleanupInit /\ [][CleanupNext]_vars

(* ------------------------------------------------ the concurrent creates *)
\* connections that earlier calls checked out and no field refers to any more
Leaked(n) == {0 - i : i \in 1..n}

\* the manager as a test that dispatches creates together can find it: with
\* the client verifyCleanup() left held, with no client after resetClient(),
\* not yet constructed, or with connections leaked by earlier concurrent calls
BulkManagers ==
    {[instance |-> 1, client |-> 1, out |-> {1}, idle |-> {}],
     [instance |-> 1, client |-> Null, out |-> {}, idle |-> {1}],
     [instance |-> 0, client |-> Null, out |-> {}, idle |-> {}]}
    \cup {[instance |-> 1, client |-> Null, out |-> Leaked(n), idle |-> {1}] :
             n \in {PoolMax - 2, PoolMax - 1}}

BulkInit ==
    /\ StoreInit
    /\ \E fx \in BulkManagers :
          /\ instance = fx.instance
          /\ client = fx.client
          /\ checkedOut = fx.out
          /\ idle = fx.idle
          /\ conns = Cardinality((fx.out \cup fx.idle) \cap Clients)
          /\ checkouts = Cardinality(fx.out \cup fx.idle)
          /\ releases = Cardinality(fx.idle)
    /\ harness = "concurrent"
    /\ pool = "open"
    /\ queue = [c \in Clients |-> <<>>]
    /\ session = [c \in Clients |-> IdleSession]
    /\ call = [s \in Slots |-> IdleCall]
    /\ done = IdleCall
    /\ dispatched = 0
    /\ closed = FALSE
    /\ RpcStart(FALSE)
    /\ GenIdle
    /\ CleanupIdle
    /\ BulkIdle
    /\ TrialIdle

\* what the promise that settled in this step gave the test: the id of the
\* created row, the rejection, or the rows getAllUsers() returned; the
\* continuations run only after map() has dispatched every create
KeysOf(tbl) == {tbl[i].username : i \in DOMAIN tbl}
BulkRecorded ==
    LET b == [bulk EXCEPT !.phase = IF @ = "dispatching" THEN "awaiting" ELSE @]
    IN  IF done' = done THEN bulk' = b
        ELSE LET st == done'.queries[1]
             IN  bulk' =
                    IF st.text = "SELECT"
                    THEN [b EXCEPT !.listed = IF done'.outcome = "resolved"
                                              THEN <<KeysOf(users')>> ELSE <<{}>>]
                    ELSE IF done'.outcome = "resolved"
                    THEN [b EXCEPT !.ids = Extend(@, st.key,
                                     CHOOSE i \in DOMAIN users' : users'[i].username = st.key)]
                    ELSE [b EXCEPT !.rejected = @ \cup {st.key}]

BulkFrame == UNCHANGED <<rpcVars, genVars, clnVars, testVars>>

AllSettled == \A s \in Slots : call[s].pc = "idle"

\* Promise.all(entities.map(e => dbService.createUser(e))) : one more of the
\* creates is dispatched, with a key none of the others has
BulkCreate(s, k) ==
    /\ bulk.phase = "dispatching"
    /\ k \notin bulk.sent
    /\ DispatchQuery(s, Insert(k))
    /\ bulk' = [bulk EXCEPT !.sent = @ \cup {k}]

\* await dbService.getAllUsers(), after the creates have settled
BulkGetAll(s) ==
    /\ bulk.phase = "awaiting"
    /\ AllSettled
    /\ DispatchQuery(s, Select)
    /\ bulk' = [bulk EXCEPT !.phase = "listing"]

BulkNext ==
    \/ (\E s \in Slots : CanDispatch(s) /\ \E k \in Keys : BulkCreate(s, k)) /\ BulkFrame
    \/ (\E s \in Slots : CanDispatch(s) /\ BulkGetAll(s)) /\ BulkFrame
    \/ (\E s \in Slots : Connected(s)) /\ bulk.sent # {} /\ BulkRecorded /\ BulkFrame
    \/ (\E s \in Slots : ConnectTimeout(s)) /\ BulkRecorded /\ BulkFrame
    \/ (\E s \in Slots : Send(s)) /\ BulkRecorded /\ BulkFrame
    \/ (\E c \in Clients : Server(c)) /\ BulkRecorded /\ BulkFrame

SpecBulk == BulkInit /\ [][BulkNext]_vars

(* -------------------------------------------- the dependent statements *)
\* the statement lists of the transaction tests: statements on a temporary
\* table and the statement the server rejects
TempTexts == {CreateTemp, InsertTemp, Invalid}
TempInputs == UNION {[1..n -> TempTexts] : n \in 0..MaxStatements}

OrdInit == StoreInit /\ ManagerInit("awaited", FreshManager) /\ OthersIdle

OrdNext ==
    \/ /\ \E s \in Slots : CanDispatch(s) /\ \E qs \in TempInputs : DispatchTransaction(s, qs)
       /\ UNCHANGED otherVars
    \/ /\ \E s \in Slots : CanDispatch(s) /\ \E st \in TempTexts : DispatchQuery(s, st)
       /\ UNCHANGED otherVars
    \/ /\ \E s \in Slots : Connected(s)
       /\ UNCHANGED otherVars
    \/ /\ \E s \in Slots : Send(s)
       /\ UNCHANGED otherVars
    \/ /\ \E c \in Clients : Server(c)
       /\ UNCHANGED otherVars

SpecOrd == OrdInit /\ [][OrdNext]_vars

(* ------------------------------------------------------- the test runs *)
TrialInit ==
    /\ StoreInit
    /\ ManagerInit("awaited", FreshManager)
    /\ RpcStart(FALSE)
    /\ GenIdle
    /\ CleanupIdle
    /\ BulkIdle
    /\ TrialIdle

TrialFrame == UNCHANGED <<dbVars, connVars, rpcVars, genVars, clnVars, bulkVars, cart>>

TrialNext ==
    \/ (\E t \in Tests : \E server \in {"mock", "any"} : StartTest(t, server)) /\ TrialFrame
    \/ (\E behaviour \in Behaviours : TryStep(behaviour)) /\ TrialFrame
    \/ CatchStep /\ TrialFrame

SpecTrial == TrialInit /\ [][TrialNext]_vars

(* ------------------------------------------------------- the cart runs *)
CartInit ==
    /\ StoreInit
    /\ ManagerInit("awaited", FreshManager)
    /\ RpcStart(FALSE)
    /\ GenIdle
    /\ CleanupIdle
    /\ BulkIdle
    /\ trial = IdleTrial
    /\ cart \in Carts

CartFrame == UNCHANGED <<dbVars, connVars, rpcVars, genVars, clnVars, bulkVars, trial>>

CartNext ==
    \/ (\E i \in 0..MaxItems : removeItem(i)) /\ CartFrame
    \/ clearCart /\ CartFrame
    \/ (\E i \in 0..(MaxItems - 1) : Click(i)) /\ CartFrame
    \/ (\E r \in 1..MaxItems : PageRemoves(r)) /\ CartFrame
    \/ (\E i \in 0..(MaxItems - 1) : ClickTimeout(i)) /\ CartFrame
    \/ ClearCartResolves /\ CartFrame

SpecCart == CartInit /\ [][CartNext]_vars

(* ============================================================== claims *)
\* the step is the return of a DatabaseService call: a call made and answered
\* in one step, or the INSERT that ends a createOrder
Returned(op) ==
    /\ last'.op = op
    /\ \/ calls' = calls + 1 /\ orderCall' = orderCall
       \/ orderCall # <<>> /\ orderCall' = <<>>

(* C1: a getUserById / getUserByEmail (getProductById / getProductBySku) of an
   entity that createUser (createProduct) returned, with no update or delete
   of it since, returns the row with the id assigned at creation and with the
   username and email (the sku) that were passed to create. *)
C1_GetReturnsCreated ==
    /\ (last.op = "getUserById" /\ last.arg \in DOMAIN createdU) =>
          /\ last.res.kind = "row"
          /\ last.res.id = last.arg
          /\ <<last.res.row.username, last.res.row.email>> = createdU[last.arg]
    /\ last.op = "getUserByEmail" =>
          \A id \in DOMAIN createdU : createdU[id][2] = last.arg =>
              /\ last.res.kind = "row"
              /\ last.res.id = id
              /\ <<last.res.row.username, last.res.row.email>> = createdU[id]
    /\ (last.op = "getProductById" /\ last.arg \in DOMAIN createdP) =>
          /\ last.res.kind = "row"
          /\ last.res.id = last.arg
          /\ last.res.row.sku = createdP[last.arg]
    /\ last.op = "getProductBySku" =>
          \A id \in DOMAIN createdP : createdP[id] = last.arg =>
              /\ last.res.kind = "row"
              /\ last.res.id = id
              /\ last.res.row.sku = createdP[id]

\* a user created first, another call, then the user fetched by its email
C1_Witness ==
    /\ last.op = "getUserByEmail"
    /\ calls = 3
    /\ \E id \in DOMAIN createdU : createdU[id][2] = last.arg /\ createdU[id][1] # last.arg

(* C2: in every reachable state no two users share a username or an email, no
   two products share a sku and no two orders share an order_number; a create
   or update whose natural key equals that of another existing entity throws
   and leaves every table unchanged. *)
NoSharedKeys ==
    /\ \A i, j \in DOMAIN users : i # j =>
          users[i].username # users[j].username /\ users[i].email # users[j].email
    /\ \A i, j \in DOMAIN products : i # j => products[i].sku # products[j].sku
    /\ \A i, j \in DOMAIN orders : i # j => orders[i].order_number # orders[j].order_number
TablesUnchanged == UNCHANGED <<users, products, orders, order_items>>
Rejected(op) == last'.op = op /\ last'.res.kind = "error" /\ TablesUnchanged
\* the row an UPDATE of row id would write has the key of another row
UpdateCollides(tbl, args, cols) ==
    /\ args.id \in DOMAIN tbl
    /\ \E j \in DOMAIN tbl \ {args.id} : \E c \in cols :
          tbl[j][c] = UpdatedRow(tbl[args.id], args.updates)[c]
DuplicateRejected ==
    /\ (Returned("createUser") /\ \E j \in DOMAIN users :
            users[j].username = last'.arg.username \/ users[j].email = last'.arg.email)
          => Rejected("createUser")
    /\ (Returned("updateUser") /\ UpdateCollides(users, last'.arg, {"username", "email"}))
          => Rejected("updateUser")
    /\ (Returned("createProduct") /\ \E j \in DOMAIN products :
            products[j].sku = last'.arg.sku)
          => Rejected("createProduct")
    /\ (Returned("updateProduct") /\ UpdateCollides(products, last'.arg, {"sku"}))
          => Rejected("updateProduct")
    /\ (Returned("createOrder") /\ \E j \in DOMAIN orders :
            orders[j].order_number = last'.arg.order_number)
          => Rejected("createOrder")
C2_UniqueNaturalKeys == []NoSharedKeys /\ [][DuplicateRejected]_dbVars

\* a second user whose email is taken was rejected while the first is stored
C2_Witness ==
    /\ last.op = "createUser" /\ last.res.kind = "error"
    /\ \E j \in DOMAIN users :
          users[j].email = last.arg.email /\ users[j].username # last.arg.username

(* C3: deleteUser / deleteProduct / deleteOrder returns true exactly when a row
   with that id existed when it was called and false otherwise, and never
   throws; a get-by-id of that id right after a delete that returned true
   returns null. *)
DeleteReturnsExisted(op, table) ==
    Returned(op) => /\ last'.res.kind = "bool"
                    /\ last'.res.flag = (last'.arg \in DOMAIN table)
GetAfterDeleteIsNull(del, get) ==
    (last.op = del /\ last.res.flag /\ Returned(get) /\ last'.arg = last.arg)
        => last'.res.kind = "null"
C3_DeleteThenGet ==
    [][/\ DeleteReturnsExisted("deleteUser", users)
       /\ DeleteReturnsExisted("deleteProduct", products)
       /\ DeleteReturnsExisted("deleteOrder", orders)
       /\ GetAfterDeleteIsNull("deleteUser", "getUserById")
       /\ GetAfterDeleteIsNull("deleteProduct", "getProductById")
       /\ GetAfterDeleteIsNull("deleteOrder", "getOrderById")]_dbVars

\* a created user was deleted (true) and then looked up by the same id
C3_Witness ==
    /\ last.op = "getUserById" /\ last.res.kind = "null"
    /\ suite = "user-crud" /\ calls = 3
    /\ last.arg = seq.users /\ users = EmptyTable

(* C4: updateUser / updateProduct on an existing entity changes only columns
   named in updates, and updated_at; every other column of the entity and
   every other row is unchanged; applying the same updates to the result of a
   successful update gives the same column values again; updates with no
   column (empty, or only an id) change nothing and return the current record. *)
NamedIn(updates) == {updates[i][1] : i \in 1..Len(updates)}
SameBut(row1, row2, cols) == \A c \in DOMAIN row1 \ cols : row1[c] = row2[c]
OthersUnchanged(tbl1, tbl2, id) ==
    /\ DOMAIN tbl2 = DOMAIN tbl1
    /\ \A j \in DOMAIN tbl1 \ {id} : tbl2[j] = tbl1[j]
UpdateFrame(tbl1, tbl2, id, updates) ==
    /\ OthersUnchanged(tbl1, tbl2, id)
    /\ SameBut(tbl1[id], tbl2[id], NamedIn(updates) \cup {"updated_at"})
    /\ last'.res.kind = "row" =>
          SameBut(UpdatedRow(tbl2[id], updates), tbl2[id], {"updated_at"})
    /\ Len(UpdateFields(updates)) = 0 =>
          /\ tbl2 = tbl1
          /\ last'.res.kind = "row" /\ last'.res.id = id /\ last'.res.row = tbl1[id]
C4_PartialUpdate ==
    [][/\ (Returned("updateUser") /\ last'.arg.id \in DOMAIN users) =>
             /\ UpdateFrame(users, users', last'.arg.id, last'.arg.updates)
             /\ UNCHANGED <<products, orders, order_items>>
       /\ (Returned("updateProduct") /\ last'.arg.id \in DOMAIN products) =>
             /\ UpdateFrame(products, products', last'.arg.id, last'.arg.updates)
             /\ UNCHANGED <<users, orders, order_items>>]_dbVars

\* a user updated at a later time than it was created, one column changed
C4_Witness ==
    /\ last.op = "updateUser" /\ last.res.kind = "row"
    /\ last.res.row.updated_at # last.res.row.created_at
    /\ last.res.row.first_name # last.res.row.username
    /\ Cardinality(DOMAIN users) = 2

(* C5: deleteUser removes the user, exactly the orders of that user and exactly
   the order items of those orders; deleteOrder removes the order and exactly
   its order items; deleteProduct removes the product and exactly the order
   items that reference it; every other row stays as it was. *)
Survivors(tbl1, tbl2, keep(_)) ==
    /\ DOMAIN tbl2 = {i \in DOMAIN tbl1 : keep(i)}
    /\ \A i \in DOMAIN tbl2 : tbl2[i] = tbl1[i]
C5_CascadeDelete ==
    [][/\ (Returned("deleteUser") /\ last'.res.flag) =>
             /\ Survivors(users, users', LAMBDA u : u # last'.arg)
             /\ Survivors(orders, orders', LAMBDA o : orders[o].user_id # last'.arg)
             /\ Survivors(order_items, order_items',
                          LAMBDA i : orders[order_items[i].order_id].user_id # last'.arg)
             /\ UNCHANGED products
       /\ (Returned("deleteOrder") /\ last'.res.flag) =>
             /\ Survivors(orders, orders', LAMBDA o : o # last'.arg)
             /\ Survivors(order_items, order_items',
                          LAMBDA i : order_items[i].order_id # last'.arg)
             /\ UNCHANGED <<users, products>>
       /\ (Returned("deleteProduct") /\ last'.res.flag) =>
             /\ Survivors(products, products', LAMBDA p : p # last'.arg)
             /\ Survivors(order_items, order_items',
                          LAMBDA i : order_items[i].product_id # last'.arg)
             /\ UNCHANGED <<users, orders>>]_dbVars

\* user 1 deleted: its order and that order's two items are gone, the other
\* user's order and item are still there
C5_Witness ==
    /\ last.op = "deleteUser" /\ last.res.flag /\ last.arg = 1
    /\ DOMAIN orders = {2} /\ DOMAIN order_items = {2}
    /\ DOMAIN products = {1, 2}

(* C6: createOrder with a user_id that no user has throws and inserts no
   order, whether the user is missing at the existence check or is deleted
   between the check and the INSERT. *)
C6_OrderNeedsUser ==
    [][/\ (Returned("createOrder") /\ last'.arg.user_id \notin DOMAIN users)
             => Rejected("createOrder")
       /\ \A o \in OrderInputs :
             (o.user_id \notin DOMAIN users /\ orderCall = <<>>) => orderCall' # <<o>>]_dbVars

\* createOrder for the id after the last user's was rejected, users exist
C6_Witness ==
    /\ last.op = "createOrder" /\ last.res.kind = "error"
    /\ users # EmptyTable /\ orders = EmptyTable /\ orderCall = <<>>
    /\ calls = 1

(* C12: a CRUD operation that targets an id no entity has leaves the store
   as it is and signals not-found by its value: getXById, updateUser and
   updateProduct resolve with null, deleteX and removeOrderItem with false;
   updateOrderStatus alone rejects ("Order with ID ... not found"). *)
Missing(op, table, id) == Returned(op) /\ id \notin DOMAIN table

StoreUnchanged ==
    /\ users' = users
    /\ products' = products
    /\ orders' = orders
    /\ order_items' = order_items

NullOrFalse(res) == res.kind = "null" \/ (res.kind = "bool" /\ ~res.flag)

NotFoundByValue ==
    (\/ Missing("getUserById", users, last'.arg)
     \/ Missing("getProductById", products, last'.arg)
     \/ Missing("getOrderById", orders, last'.arg)
     \/ Missing("updateUser", users, last'.arg.id)
     \/ Missing("updateProduct", products, last'.arg.id)
     \/ Missing("deleteUser", users, last'.arg)
     \/ Missing("deleteProduct", products, last'.arg)
     \/ Missing("deleteOrder", orders, last'.arg)
     \/ Missing("removeOrderItem", order_items, last'.arg))
    => NullOrFalse(last'.res) /\ StoreUnchanged

C12_NotFound ==
    [][/\ NotFoundByValue
       /\ Missing("updateOrderStatus", orders, last'.arg.id) =>
             last'.res.kind = "error" /\ StoreUnchanged]_dbVars

\* updateOrderStatus was called with an id no order has
C12_Witness ==
    /\ last.op = "updateOrderStatus"
    /\ last.arg.id \notin DOMAIN orders
    /\ last.res.kind = "error"
    /\ orders = SeedOrders

\* the claim as stated, for the calls that leave the set of rows as it is:
\* the call that returned last targeted an id its table does not have, and
\* did not throw
C12_NotFoundNeverThrows ==
    /\ (last.op = "getUserById" /\ last.arg \notin DOMAIN users) => NullOrFalse(last.res)
    /\ (last.op = "getProductById" /\ last.arg \notin DOMAIN products) =>
          NullOrFalse(last.res)
    /\ (last.op = "getOrderById" /\ last.arg \notin DOMAIN orders) => NullOrFalse(last.res)
    /\ (last.op = "updateUser" /\ last.arg.id \notin DOMAIN users) => NullOrFalse(last.res)
    /\ (last.op = "updateProduct" /\ last.arg.id \notin DOMAIN products) =>
          NullOrFalse(last.res)
    /\ (last.op = "updateOrderStatus" /\ last.arg.id \notin DOMAIN orders) =>
          NullOrFalse(last.res)
    /\ last.op \in {"deleteUser", "deleteProduct", "deleteOrder", "removeOrderItem"} =>
          last.res.kind = "bool"

(* C13: updateOrderStatus(id, s) on an existing order succeeds for every pair
   of current status and s (out of delivered or cancelled, and s equal to the
   current status, included): it returns the row with status s, and nothing
   but status and updated_at of that row changes. *)
C13_AnyTransition ==
    [][(Returned("updateOrderStatus") /\ last'.arg.id \in DOMAIN orders) =>
          /\ last'.res.kind = "row"
          /\ last'.res.id = last'.arg.id
          /\ last'.res.row = orders'[last'.arg.id]
          /\ orders'[last'.arg.id].status = last'.arg.status
          /\ OthersUnchanged(orders, orders', last'.arg.id)
          /\ SameBut(orders[last'.arg.id], orders'[last'.arg.id], {"status", "updated_at"})
          /\ users' = users /\ products' = products /\ order_items' = order_items]_dbVars

\* a delivered order was set to pending, and another one was set to the
\* status it had
C13_Witness ==
    /\ last.op = "updateOrderStatus"
    /\ last.res.kind = "row"
    /\ calls = 3
    /\ now = 1
    /\ orders[1].status = "pending" /\ orders[1].updated_at = 1
    /\ orders[2].status = "delivered" /\ orders[2].updated_at = 0
    /\ last.arg = StatusArgs(1, "pending")

(* ----------------------------------------------- DatabaseConnection claims *)
\* the call that settled last has just settled: nothing was dispatched since
JustSettled == done.number = dispatched /\ \A s \in Slots : call[s].pc = "idle"

FirstFailure(results) ==
    CHOOSE i \in DOMAIN results :
        results[i] = "error" /\ \A j \in DOMAIN results : results[j] = "error" => i <= j

Inserts(queries) == Cardinality({i \in DOMAIN queries : queries[i].text = "INSERT"})

\* a COMMIT is passed to the connection only when every statement of its
\* call has been answered, and with success
CommitAfterAll ==
    \A c \in Clients : \A i \in DOMAIN queue[c] :
        queue[c][i].text = "COMMIT" =>
            /\ PromiseAll(call[queue[c][i].slot].results)
            /\ \A d \in Clients : \A j \in DOMAIN queue[d] :
                  queue[d][j].slot = queue[c][i].slot => (d = c /\ j = i)

(* C7: for a transaction(queries) whose calls are awaited one after another:
   when every statement of the list succeeded, COMMIT was issued exactly once,
   only after all statements were answered, no ROLLBACK was issued, the call
   resolves and the rows of the list are in the store; when a statement
   failed, ROLLBACK was issued, COMMIT never, the call rejects with the first
   failure, and the store holds exactly the rows it held at the call. *)
C7_AllOrNothing ==
    /\ CommitAfterAll
    /\ \A s \in Slots : call[s].commits <= 1
    /\ (done.op = "transaction" /\ done.conn # Null /\ PromiseAll(done.results)) =>
          /\ done.outcome = "resolved"
          /\ done.commits = 1 /\ done.rollbacks = 0
          /\ JustSettled =>
                /\ DOMAIN done.before \subseteq DOMAIN Persisted
                /\ Cardinality(DOMAIN Persisted)
                      = Cardinality(DOMAIN done.before) + Inserts(done.queries)
    /\ (done.op = "transaction" /\ \E i \in DOMAIN done.results : done.results[i] = "error") =>
          /\ done.outcome = "rejected"
          /\ done.rollbacks = 1 /\ done.commits = 0
          /\ done.err = <<"statement", FirstFailure(done.results)>>
          /\ JustSettled => Persisted = done.before

\* after a user was inserted, a transaction whose first INSERT succeeded and
\* whose second failed has settled
C7_Witness ==
    /\ done.op = "transaction"
    /\ done.results = <<"ok", "error">>
    /\ done.before # EmptyTable
    /\ JustSettled

(* C8: in every reachable state at most one connection is checked out of the
   pool, no two calls in flight have each checked one out, and every
   checked-out connection is the one this.client holds, so that
   resetClient() and close() can release it. *)
C8_SingleCheckout ==
    /\ Cardinality(checkedOut) <= 1
    /\ \A s, t \in Slots : (call[s].leased /\ call[t].leased) => s = t
    /\ checkedOut \subseteq {client}

(* C9: once a close() has resolved, the manager holds no connection, the pool
   has no connection checked out or idle and is ended, there is still the one
   manager, and every query() or transaction() dispatched from then on
   rejects, without ever being in flight. *)
C9_ClosedForGood ==
    /\ closed =>
          /\ client = Null
          /\ checkedOut = {} /\ idle = {}
          /\ pool = "ended"
          /\ instance = 1
    /\ (done.afterClose /\ done.op \in {"query", "transaction"}) =>
          done.outcome = "rejected"
    /\ \A s \in Slots : call[s].afterClose => call[s].op \notin {"query", "transaction"}

\* three calls were dispatched: one that checked a connection out, a close()
\* that released it and has resolved, and a query() after that, which settled
C9_Witness ==
    /\ closed
    /\ dispatched = 3
    /\ checkouts = conns + 1
    /\ releases = checkouts
    /\ done.op = "query"
    /\ done.afterClose

\* the step is a resetClient() call, which runs to its end when dispatched
ResetClientReturns ==
    /\ dispatched' = dispatched + 1
    /\ done'.op = "resetClient"
    /\ done'.number = dispatched'

(* C10: the held connection is always one that is checked out; a
   resetClient() that finds a held connection leaves the manager holding
   none and releases that connection, once; a resetClient() that finds none
   changes nothing of the manager, the pool, the connections or the store;
   and a query() or transaction() dispatched while no connection is held
   passes no statement to a connection before it has checked one out. *)
C10_ResetClient ==
    /\ [](client # Null => client \in checkedOut)
    /\ [](\A s \in Slots :
            (call[s].sawNull /\ call[s].pc \in {"ready", "awaiting", "begin",
                                                  "statements", "commit", "rollback"}) =>
                call[s].leased)
    /\ []((done.sawNull /\ \E i \in DOMAIN done.results : done.results[i] # "pending") =>
                done.leased)
    /\ [][ResetClientReturns =>
            /\ client' = Null
            /\ client # Null =>
                  /\ checkedOut' = checkedOut \ {client}
                  /\ releases' = releases + 1
                  /\ pool = "open" => idle' = idle \cup {client}
            /\ client = Null =>
                  UNCHANGED <<client, pool, conns, checkedOut, idle, queue, session,
                              call, checkouts, releases, users, seq>>]_vars

\* a resetClient() that found a held connection has returned
C10_Witness ==
    /\ done.op = "resetClient"
    /\ ~done.sawNull
    /\ releases > 0
    /\ client = Null

(* ------------------------------------------------------------ RPC claims *)
(* C11: every executeCall invokes the named remote method at most once and
   its promise settles exactly once: resolved with the response when the
   callback reported no error, rejected with the callback's error otherwise;
   a method the stub does not have gives a rejected promise, with no
   invocation and no promise left pending. *)
C11_ExecuteCallSettlesOnce ==
    /\ \A s \in Slots :
          rpc[s].pc = "pending" =>
              /\ rpc[s].invoked = 1
              /\ rpc[s].settles = 0
              /\ HasMethod(rpc[s].service, rpc[s].method)
    /\ settledRpc.pc = "settled" =>
          /\ settledRpc.invoked <= 1
          /\ settledRpc.settles = 1
          /\ settledRpc.invoked = 1 =>
                IF settledRpc.cbError = "none"
                THEN /\ settledRpc.outcome = "resolved"
                     /\ settledRpc.value = settledRpc.cbResponse
                ELSE /\ settledRpc.outcome = "rejected"
                     /\ settledRpc.error = settledRpc.cbError
          /\ ~HasMethod(settledRpc.service, settledRpc.method) =>
                /\ settledRpc.invoked = 0
                /\ settledRpc.outcome = "rejected"

C11_Witness ==
    /\ settledRpc.pc = "settled"
    /\ settledRpc.invoked = 1
    /\ settledRpc.cbError = "DEADLINE_EXCEEDED"
    /\ settledRpc.outcome = "rejected"

(* C15: whatever the request and whatever came before, the mock server
   answers every remote method a GrpcService operation invokes with
   success = true, and every Create* / AddOrderItem with id 1 and the fields
   of the request. *)
TransportErrors == {"UNAVAILABLE", "DEADLINE_EXCEEDED", "CANCELLED"}

C15_MockAnswersSuccess ==
    (/\ settledRpc.pc = "settled"
     /\ settledRpc.op \in DOMAIN ServiceOf
     /\ settledRpc.cbError \notin TransportErrors)
    => /\ settledRpc.outcome = "resolved"
       /\ settledRpc.value.success
       /\ settledRpc.op \in CreateOps \cup {"addOrderItem"} =>
             /\ settledRpc.value.entity.id = 1
             /\ \A f \in DOMAIN settledRpc.request :
                   settledRpc.value.entity[f] = settledRpc.request[f]

(* C16: every create call of the tests that returned a success response with
   an id is recorded in the spec file's accumulator, and afterAll issues a
   delete for every recorded id, on channels that are still open, before it
   closes them. *)
C16_RecordedAndDeleted ==
    /\ unrecorded = 0
    /\ \A i \in DOMAIN cleanup : cleanup[i].open
    /\ phase = "done" =>
          \A a \in DOMAIN createdIds : \A i \in DOMAIN createdIds[a] :
              \E j \in DOMAIN cleanup :
                  cleanup[j].array = a /\ cleanup[j].id = createdIds[a][i]

(* C19: getInstance() returns one and the same object on every call that
   returns; that object has all three stubs, so getConnectionStatus() is
   true three times and no getXService() throws; when initialization fails,
   getInstance() throws and GrpcClient.instance stays unset. *)
C19_SingletonInitialized ==
    /\ Cardinality(returned) <= 1
    /\ grpcInstance.made =>
          /\ getConnectionStatus(grpcInstance)
                = [userService |-> TRUE, productService |-> TRUE, orderService |-> TRUE]
          /\ \A sv \in DOMAIN MockMethods : ~GetServiceThrows(grpcInstance, sv)
          /\ returned \subseteq {grpcInstance.number}
    /\ gotInstance.threw => grpcInstance = NoGrpcClient
    /\ ~gotInstance.threw => gotInstance.instance = grpcInstance

C19_Witness ==
    /\ constructions = 2
    /\ grpcInstance.made
    /\ returned = {2}
    /\ rpcCalls = 3

(* C20: createProduct without is_active and image_url sends is_active = true
   and image_url = ''; createOrder without status sends 'pending'; a given
   is_active (false included) and a given status are sent as they are; the
   entity of the response carries the values that were sent. *)
Sent == {rpc[s] : s \in {t \in Slots : rpc[t].pc = "pending"}}
            \cup (IF settledRpc.invoked = 1 THEN {settledRpc} ELSE {})

C20_DefaultsSent ==
    /\ \A cl \in Sent :
          /\ cl.op = "createProduct" =>
                /\ cl.request.is_active
                      = IF cl.args.is_active = Undefined THEN "true" ELSE cl.args.is_active
                /\ cl.args.image_url = Undefined => cl.request.image_url = ""
          /\ cl.op = "createOrder" =>
                /\ cl.args.status = Undefined => cl.request.status = "pending"
                /\ cl.args.status \notin {Undefined, ""} =>
                      cl.request.status = cl.args.status
    /\ (settledRpc.outcome = "resolved" /\ settledRpc.op = "createProduct") =>
          /\ settledRpc.value.entity.is_active = settledRpc.request.is_active
          /\ settledRpc.value.entity.image_url = settledRpc.request.image_url
    /\ (settledRpc.outcome = "resolved" /\ settledRpc.op = "createOrder") =>
          settledRpc.value.entity.status = settledRpc.request.status

C20_Witness ==
    /\ settledRpc.outcome = "resolved"
    /\ settledRpc.op = "createProduct"
    /\ settledRpc.args.is_active = "false"
    /\ settledRpc.args.image_url = Undefined
    /\ settledRpc.value.entity.is_active = "false"
    /\ settledRpc.value.entity.image_url = ""

(* ------------------------------------------------------ generator claims *)
NaturalKeys(e) ==
    CASE e.kind = "user" -> {<<"username", e.username>>, <<"email", e.email>>}
      [] e.kind = "product" -> {<<"sku", e.sku>>}
      [] OTHER -> {<<"order_number", e.order_number>>}

(* C14: any two entities the generator has returned in the process, in one
   call or in different calls, have different natural keys. *)
C14_DistinctNaturalKeys ==
    \A i, j \in DOMAIN generated :
        i < j => NaturalKeys(generated[i]) \cap NaturalKeys(generated[j]) = {}

(* ------------------------------------------------------- cleanup claims *)
(* C18: cleanupTestData() goes through its strategies in the order 1, 2, 3
   and enters the next one only when the one before threw or failed its
   verification; it resolves only after a verification that counted zero rows
   in users, products, orders and order_items; it rejects only when all three
   strategies have failed. *)
C18_CleanupStrategies ==
    /\ cln.pc # "idle" =>
          /\ cln.strategy \in 1..Len(Strategies)
          /\ Len(cln.ended) = IF cln.pc = "settled" THEN cln.strategy ELSE cln.strategy - 1
          /\ \A i \in 1..(cln.strategy - 1) :
                cln.ended[i] \in {"threw", "verification failed"}
    /\ cln.outcome = "resolved" =>
          /\ cln.pc = "settled"
          /\ cln.counts = <<0, 0, 0, 0>>
          /\ cln.ended[cln.strategy] = "verified"
    /\ cln.outcome = "rejected" =>
          /\ cln.pc = "settled"
          /\ cln.strategy = Len(Strategies)
          /\ Len(cln.ended) = Len(Strategies)
          /\ \A i \in DOMAIN cln.ended : cln.ended[i] \in {"threw", "verification failed"}

\* the first strategy threw, the second failed its verification because a
\* row had arrived, and the third was verified
C18_Witness ==
    /\ cln.outcome = "resolved"
    /\ cln.ended = <<"threw", "verification failed", "verified">>
    /\ cln.inserts = 1

(* ------------------------------------------------ concurrent-create claims *)
(* C17: creates dispatched together with pairwise different natural keys all
   settle fulfilled and receive pairwise different ids, and the getAll issued
   after they have settled returns exactly the entities they created. *)
C17_ConcurrentCreatesAllFulfil ==
    /\ bulk.rejected = {}
    /\ \A j, k \in DOMAIN bulk.ids : j # k => bulk.ids[j] # bulk.ids[k]
    /\ bulk.listed # <<>> => bulk.listed = <<bulk.sent>>

\* two creates dispatched together both resolved, with different ids, and
\* getAllUsers() returned the two
C17_BothCreated ==
    /\ Cardinality(bulk.sent) = 2
    /\ DOMAIN bulk.ids = bulk.sent
    /\ bulk.listed = <<bulk.sent>>

(* -------------------------------------------------------- update claims *)
(* C21: updateUser/updateProduct set the column of every key of updates other
   than id and created_at to the value supplied under that same key, also
   when updates contains an id or created_at key at any position. *)
C21_UpdateSetsSuppliedValues ==
    (last.op \in {"updateUser", "updateProduct"} /\ last.res.kind = "row") =>
        LET updates == last.arg.updates
        IN  \A i \in DOMAIN updates :
                IsColumnKey(updates[i][1]) => last.res.row[updates[i][1]] = updates[i][2]

\* an update whose id key comes after the other key stores the supplied value
C21_IdKeyLast ==
    /\ last.op = "updateUser"
    /\ last.res.kind = "row"
    /\ Len(last.arg.updates) = 2
    /\ last.arg.updates[2][1] = "id"
    /\ last.res.row[last.arg.updates[1][1]] = last.arg.updates[1][2]

(* ------------------------------------------------ referential integrity *)
(* C22: in every reachable state every order's user_id is the id of an
   existing user and every order item's order_id and product_id are the ids
   of an existing order and product, whatever deleteUser, deleteOrder or
   deleteProduct call runs between createOrder's existence check and its
   insert or around an addOrderItem. *)
C22_ReferencesExist ==
    /\ \A o \in DOMAIN orders : orders[o].user_id \in DOMAIN users
    /\ \A i \in DOMAIN order_items :
          /\ order_items[i].order_id \in DOMAIN orders
          /\ order_items[i].product_id \in DOMAIN products

\* createOrder passed its existence check, the user was deleted before the
\* insert, and the insert was rejected by the foreign key
C22_Witness ==
    /\ last.op = "createOrder"
    /\ last.res.kind = "error"
    /\ last.arg.user_id \notin DOMAIN users
    /\ last.arg.user_id <= seq.users
    /\ orders = EmptyTable
    /\ orderCall = <<>>
    /\ seq.orders = 1

(* ------------------------------------------------ statement order claims *)
\* a list whose first statement creates the table the others insert into
DependsOnFirst(queries) ==
    /\ Len(queries) >= 2
    /\ queries[1] = CreateTemp
    /\ \A i \in 2..Len(queries) : queries[i] = InsertTemp

\* the statements of call s still unanswered, as the connection holds them
Unanswered(s) ==
    SelectSeq([i \in 1..Len(queue[call[s].conn]) |->
                  IF queue[call[s].conn][i].slot = s
                  THEN queue[call[s].conn][i].index ELSE 0],
              LAMBDA i : i > 0)

(* C23: transaction(queries) passes every statement to the connection after
   BEGIN without waiting for the earlier ones to complete, and the
   connection executes them in list order, so a list whose later statements
   insert into the table its first statement creates is committed. *)
C23_DispatchedTogetherRunInOrder ==
    /\ \A s \in Slots :
          call[s].pc = "statements" =>
              \E j \in 0..Len(call[s].queries) :
                  /\ \A i \in 1..Len(call[s].queries) :
                        call[s].results[i] = IF i <= j THEN "ok" ELSE "pending"
                  /\ Unanswered(s) = [i \in 1..(Len(call[s].queries) - j) |-> j + i]
    /\ (done.op = "transaction" /\ done.number = 1 /\ DependsOnFirst(done.queries)) =>
          /\ done.outcome = "resolved"
          /\ PromiseAll(done.results)

\* the first transaction of the process, CREATE TEMP TABLE followed by an
\* INSERT into that table, has committed
C23_Witness ==
    /\ done.op = "transaction"
    /\ done.number = 1
    /\ DependsOnFirst(done.queries)
    /\ done.outcome = "resolved"
    /\ done.commits = 1

\* both statements were in the connection's queue at once
C23_BothQueued ==
    \E s \in Slots :
        /\ call[s].pc = "statements"
        /\ DependsOnFirst(call[s].queries)
        /\ Unanswered(s) = <<1, 2>>

(* C24: generateOrders(userIds, count) returns exactly count orders, each with
   a user_id taken from userIds, with pairwise different order_numbers. *)
C24_GenerateOrdersCount ==
    genCall.op = "generateOrders" =>
        /\ Len(genCall.returned) = genCall.count
        /\ \A i \in DOMAIN genCall.returned :
              \E u \in DOMAIN genCall.userIds :
                  genCall.returned[i].user_id = genCall.userIds[u]
        /\ \A i, j \in DOMAIN genCall.returned :
              i # j => genCall.returned[i].order_number # genCall.returned[j].order_number

\* what the code does instead: one order per user id, whatever count is
C24_OnePerUserId ==
    /\ genCall.op = "generateOrders"
    /\ genCall.count # Len(genCall.userIds)
    /\ Len(genCall.returned) = Len(genCall.userIds)

(* ---------------------------------------------------------- test claims *)
(* C25: run against the mock server as shipped, the RPC tests that assert
   that a duplicate key is refused cannot end as passed. *)
C25_DuplicateTestsCannotPass ==
    (trial.server = "mock" /\ trial.test \in DuplicateTests /\ trial.pc = "ended") =>
        trial.outcome # "passed"

(* C29: an RPC test whose assertions sit in a try block followed by a catch
   that only asserts that the error is defined ends as passed whatever the
   server does: answers success, answers success false, answers something
   unexpected, or fails the call. *)
C29_TryCatchTestsAlwaysPass ==
    /\ trial.pc = "ended" => trial.outcome = "passed"
    /\ trial.pc = "catch" => trial.error \in {"ServiceError", "ExpectError", "TypeError"}

\* the duplicate-email test ran against the mock server, its expectation of
\* success false threw, and the catch block let the test pass
C29_Witness ==
    /\ trial.test = "should handle duplicate email creation"
    /\ trial.server = "mock"
    /\ trial.pc = "ended"
    /\ trial.error = "ExpectError"
    /\ trial.step = 5
    /\ trial.outcome = "passed"

(* C26: a product created through createProduct without is_active and
   image_url is stored with is_active = true and image_url = '', and an order
   created through createOrder without status is stored with status
   'pending'. *)
C26_DefaultsStored ==
    /\ (last.op = "createProduct" /\ last.res.kind = "row") =>
          /\ (Field(last.arg, "is_active") = Undefined => last.res.row.is_active = "true")
          /\ (Field(last.arg, "image_url") = Undefined => last.res.row.image_url = "")
    /\ (last.op = "createOrder" /\ last.res.kind = "row") =>
          (Field(last.arg, "status") = Undefined => last.res.row.status = "pending")

\* fields that are supplied are stored as supplied
C26_SuppliedStored ==
    /\ last.op = "createProduct"
    /\ last.res.kind = "row"
    /\ Field(last.arg, "is_active") = "false"
    /\ last.res.row.is_active = "false"
    /\ last.res.row.image_url = "url"

(* ---------------------------------------------------------- cart claims *)
\* C27: whenever clearCart() has settled it has fulfilled and no row is left
\* on the page, in whatever order its clicks acted
C27_ClearCartEmpties ==
    (cart.op = "clearCart" /\ cart.pc = "settled")
        => (cart.outcome = "fulfilled" /\ isCartEmpty)

\* clearCart() fulfilled on a cart of two rows or more and left it empty
C27_ClearedInSomeOrder ==
    /\ cart.op = "clearCart" /\ cart.pc = "settled"
    /\ cart.outcome = "fulfilled" /\ isCartEmpty
    /\ Len(cart.clicks) >= 2

(* ------------------------------------------------ shared connection claims *)
\* the transaction() in slot t has passed BEGIN to its connection and neither
\* COMMIT nor ROLLBACK yet
BetweenBeginAndEnd(t) ==
    /\ call[t].op = "transaction"
    /\ call[t].pc \in {"begin", "statements"}

\* the step passes the statement of the query() in slot s to a connection
IssuesQuery(s) ==
    /\ call[s].op = "query"
    /\ call[s].pc = "ready"
    /\ call'[s].pc = "awaiting"

\* C28: a statement a query() issues between a transaction()'s BEGIN and its
\* COMMIT or ROLLBACK goes to the connection of that transaction, behind the
\* BEGIN and ahead of the statement that ends it
C28_QueryJoinsOpenTransaction ==
    [][\A s \in Slots : \A t \in Slots :
          (IssuesQuery(s) /\ BetweenBeginAndEnd(t))
              => /\ call[s].conn = call[t].conn
                 /\ \E i \in DOMAIN queue'[call[t].conn] :
                       queue'[call[t].conn][i].slot = s]_vars

\* a query() has its statement queued on the connection of a transaction()
\* that is between BEGIN and its end
C28_SharedConnection ==
    \E s \in Slots : \E t \in Slots :
        /\ BetweenBeginAndEnd(t)
        /\ call[s].op = "query" /\ call[s].pc = "awaiting"
        /\ call[s].conn = call[t].conn

(* C30: updateUser and updateProduct send a request with every field of the
   entity: a field the updates leave out is sent as '' (strings), 0 (price,
   stock_quantity) or true (is_active), so the request is the one an update
   that sets those fields to ''/0/true sends. *)
StringFields(op) ==
    IF op = "updateUser" THEN {"username", "email", "phone"}
    ELSE {"name", "sku", "image_url"}
NumberFields(op) == IF op = "updateUser" THEN {} ELSE {"price", "stock_quantity"}
FlagFields(op) == IF op = "updateUser" THEN {} ELSE {"is_active"}
AllFields(op) == {"id"} \cup StringFields(op) \cup NumberFields(op) \cup FlagFields(op)

\* the updates with every field they leave out set to its default
WithDefaults(op, a) ==
    [f \in AllFields(op) |->
        IF f = "id" THEN a.id
        ELSE IF f \in NumberFields(op) THEN (IF f \in DOMAIN a THEN a[f] ELSE 0)
        ELSE IF a[f] # Undefined THEN a[f]
        ELSE IF f \in FlagFields(op) THEN "true" ELSE ""]

C30_UpdateSendsEveryField ==
    \A cl \in Sent :
        cl.op \in {"updateUser", "updateProduct"} =>
            /\ DOMAIN cl.request = AllFields(cl.op)
            /\ \A f \in StringFields(cl.op) :
                  cl.args[f] = Undefined => cl.request[f] = ""
            /\ \A f \in NumberFields(cl.op) :
                  f \notin DOMAIN cl.args => cl.request[f] = 0
            /\ \A f \in FlagFields(cl.op) :
                  cl.args[f] = Undefined => cl.request[f] = "true"
            /\ cl.request = Request(cl.op, WithDefaults(cl.op, cl.args))

\* a partial updateProduct was sent: no sku, no price, no is_active
C30_PartialUpdateSent ==
    \E cl \in Sent :
        /\ cl.op = "updateProduct"
        /\ cl.args.sku = Undefined
        /\ "price" \notin DOMAIN cl.args
        /\ cl.args.is_active = Undefined
        /\ cl.request.sku = "" /\ cl.request.price = 0 /\ cl.request.is_active = "true"

====
